---------------------------- MODULE Spec2Model ----------------------------
(***************************************************************************)
(* A model of the command dispatch engine of line.py: the webhook request *)
(* handler BaseBot._handle_request, the event hooks, process_command, the  *)
(* parameter codec (_parse_data, _parse_params), the cog registry          *)
(* (add_cog, Cog) and the Context constructor.                             *)
(*                                                                         *)
(* Python strings are sequences of one-character strings, so that split,   *)
(* join, isdigit and lower are computed as Python computes them.           *)
(***************************************************************************)
EXTENDS Integers, Sequences, FiniteSets, TLC

(***************************************************************************)
(* Bounds of the model.                                                    *)
(***************************************************************************)
MaxEvents == 2
MaxCogs == 2

\* the requests the server can have in flight, and the one it has when the
\* requests arrive one after the other
Requests == {"r1", "r2"}

Serial == {"r1"}

(***************************************************************************)
(* String literals of the source, as character sequences.                  *)
(***************************************************************************)
s_cmd == <<"c", "m", "d">>
s_None == <<"N", "o", "n", "e">>
s_true == <<"t", "r", "u", "e">>
s_false == <<"f", "a", "l", "s", "e">>
s_ping == <<"p", "i", "n", "g">>
s_boom == <<"b", "o", "o", "m">>
s_plus == <<"p", "l", "u", "s">>
s_nope == <<"n", "o", "p", "e">>
s_self == <<"s", "e", "l", "f">>
s_ctx == <<"c", "t", "x">>
s_n == <<"n">>

(***************************************************************************)
(* Python values: None, str, int, float, bool.                             *)
(***************************************************************************)
PyNone == [t |-> "none", v |-> <<>>]
PyStr(s) == [t |-> "str", v |-> s]
PyInt(n) == [t |-> "int", v |-> n]
PyFloat(s) == [t |-> "float", v |-> s]
PyBool(b) == [t |-> "bool", v |-> b]

(***************************************************************************)
(* Exceptions.  Every exception is a record of the same shape: its type,   *)
(* the command name it carries (CommandExecError, ParamParseError), the    *)
(* type of the wrapped cause, and the parameter name and value of a        *)
(* conversion error (also when it is the wrapped cause).                   *)
(***************************************************************************)
NoExc == [type |-> "none", command_name |-> <<>>, e |-> "none",
          param_name |-> <<>>, value |-> <<>>, cog_path |-> ""]
Raise(type) == [NoExc EXCEPT !.type = type]
TypeError == Raise("TypeError")
ValueError == Raise("ValueError")
KeyError == Raise("KeyError")
AttributeError == Raise("AttributeError")
HandlerError == Raise("RuntimeError")
BodyError == Raise("ValidationError")

\* exceptions.py: class CommandExecError.__init__(command_name, e)
CommandExecError(command_name, e) ==
    [type |-> "CommandExecError", command_name |-> command_name, e |-> e.type,
     param_name |-> e.param_name, value |-> e.value, cog_path |-> ""]

\* exceptions.py: class ParamParseError.__init__(command_name, e)
ParamParseError(command_name, e) ==
    [type |-> "ParamParseError", command_name |-> command_name, e |-> e.type,
     param_name |-> e.param_name, value |-> e.value, cog_path |-> ""]

\* exceptions.py: class CogLoadError.__init__(cog_path, e); e is an exception
\* or a message
CogLoadError(cog_path, e) ==
    [NoExc EXCEPT !.type = "CogLoadError", !.cog_path = cog_path, !.e = e]

\* exceptions.py: class IntConvertError.__init__(param_name, value)
IntConvertError(param_name, value) ==
    [NoExc EXCEPT !.type = "IntConvertError", !.param_name = param_name,
                  !.value = value]

\* exceptions.py: class FloatConvertError.__init__(param_name, value)
FloatConvertError(param_name, value) ==
    [NoExc EXCEPT !.type = "FloatConvertError", !.param_name = param_name,
                  !.value = value]

(***************************************************************************)
(* str.split(sep), sep.join(parts), str.isdigit(), str.lower().            *)
(***************************************************************************)
RECURSIVE IndexOf(_, _, _)
\* the least index >= k of character ch in s, or 0
IndexOf(s, ch, k) ==
    IF k > Len(s) THEN 0
    ELSE IF s[k] = ch THEN k
    ELSE IndexOf(s, ch, k + 1)

RECURSIVE Split(_, _)
Split(s, sep) ==
    LET k == IndexOf(s, sep, 1)
    IN  IF k = 0 THEN <<s>>
        ELSE <<SubSeq(s, 1, k - 1)>> \o Split(SubSeq(s, k + 1, Len(s)), sep)

RECURSIVE Join(_, _)
Join(parts, sep) ==
    IF Len(parts) = 0 THEN <<>>
    ELSE IF Len(parts) = 1 THEN parts[1]
    ELSE parts[1] \o <<sep>> \o Join(Tail(parts), sep)

DigitChars == {"0", "1", "2", "3", "4", "5", "6", "7", "8", "9"}

\* "sup2" stands for the one character U+00B2 (superscript two): a digit for
\* str.isdigit, not a decimal digit for int()
IsDigitChars == DigitChars \cup {"sup2"}

IsDigit(s) == Len(s) > 0 /\ \A k \in 1..Len(s) : s[k] \in IsDigitChars

IsDecimal(s) == Len(s) > 0 /\ \A k \in 1..Len(s) : s[k] \in DigitChars

LowerChar(ch) ==
    CASE ch = "A" -> "a" [] ch = "E" -> "e" [] ch = "F" -> "f"
      [] ch = "L" -> "l" [] ch = "R" -> "r" [] ch = "S" -> "s"
      [] ch = "T" -> "t" [] ch = "U" -> "u" [] ch = "N" -> "n"
      [] ch = "O" -> "o" [] OTHER -> ch

\* a comparison of the value as it is, without str.lower()
LowerNothing(s) == s

Lower(s) == [k \in 1..Len(s) |-> LowerChar(s[k])]

DigitVal(ch) ==
    CASE ch = "0" -> 0 [] ch = "1" -> 1 [] ch = "2" -> 2 [] ch = "3" -> 3
      [] ch = "4" -> 4 [] ch = "5" -> 5 [] ch = "6" -> 6 [] ch = "7" -> 7
      [] ch = "8" -> 8 [] ch = "9" -> 9

RECURSIVE ParseInt(_)
\* int(s) for a string of decimal digits
ParseInt(s) ==
    IF Len(s) = 0 THEN 0
    ELSE 10 * ParseInt(SubSeq(s, 1, Len(s) - 1)) + DigitVal(s[Len(s)])

\* float(s) succeeds: [sign] digits [. digits] | [sign] . digits, over the
\* characters of the model's alphabet
IsFloat(s) ==
    LET body == IF Len(s) > 0 /\ s[1] \in {"+", "-"} THEN Tail(s) ELSE s
        dot == IndexOf(body, ".", 1)
        ip == IF dot = 0 THEN body ELSE SubSeq(body, 1, dot - 1)
        fp == IF dot = 0 THEN <<>> ELSE SubSeq(body, dot + 1, Len(body))
        digits(x) == \A k \in 1..Len(x) : x[k] \in DigitChars
    IN  /\ digits(ip) /\ digits(fp)
        /\ Len(ip) + Len(fp) > 0

(***************************************************************************)
(* BaseBot._parse_data: the parameter string to a dict (a function from    *)
(* keys to PyNone or PyStr).                                               *)
(***************************************************************************)
EmptyDict == [k \in {} |-> PyNone]

DictSet(d, key, value) ==
    [k \in DOMAIN d \cup {key} |-> IF k = key THEN value ELSE d[k]]

\* a lookup that falls back to the default for a stored None too
DictGetOrDefault(d, key, default) ==
    IF key \in DOMAIN d /\ d[key].t # "none" THEN d[key] ELSE default

DictGet(d, key, default) == IF key \in DOMAIN d THEN d[key] ELSE default

\* a value that is the second part of the split and nothing more
SegmentValueSecondPart(key_value) == key_value[2]

\* value = "=".join(key_value[1:])
SegmentValue(key_value) == Join(Tail(key_value), "=")

\* every non-empty value stored as the string it is
StoredValueVerbatim(value) == PyStr(value)

\* if value == "None": value = None
StoredValue(value) == IF value = s_None THEN PyNone ELSE PyStr(value)

\* one iteration of the loop over the segments
ParseSegment(param_dict, param) ==
    LET key_value == Split(param, "=")
    IN  IF Len(key_value) >= 2
        THEN LET key == key_value[1]
                 value == SegmentValue(key_value)
             IN  IF Len(value) > 0
                 THEN DictSet(param_dict, key, StoredValue(value))
                 ELSE param_dict
        ELSE param_dict

RECURSIVE ParseSegments(_, _)
ParseSegments(param_dict, params) ==
    IF Len(params) = 0 THEN param_dict
    ELSE ParseSegments(ParseSegment(param_dict, Head(params)), Tail(params))

_parse_data(param_string) ==
    IF Len(param_string) > 0
    THEN ParseSegments(EmptyDict, Split(param_string, "&"))
    ELSE EmptyDict


(***************************************************************************)
(* Declared parameters (inspect.Parameter) and annotations.  An annotation *)
(* is a string (the module of the cog uses postponed evaluation), a type   *)
(* object, a Union of type objects, or missing from __annotations__.       *)
(***************************************************************************)
StrAnn(name) == [kind |-> "str", name |-> name, args |-> <<>>]
TypeAnn(name) == [kind |-> "type", name |-> name, args |-> <<>>]
UnionAnn(args) == [kind |-> "union", name |-> "Union", args |-> args]
NoAnn == [kind |-> "missing", name |-> "", args |-> <<>>]
NoneAnn == [kind |-> "none", name |-> "None", args |-> <<>>]
\* typing.ForwardRef(name): what Optional["int"] holds for "int"
ForwardRefAnn(name) == [kind |-> "forwardref", name |-> name, args |-> <<>>]

Param(name, annotation, has_default, default, kind) ==
    [name |-> name, annotation |-> annotation, has_default |-> has_default,
     default |-> default, kind |-> kind]

\* the first argument of a Union that is not NoneType, or None
RECURSIVE FirstNotNone(_)
FirstNotNone(args) ==
    IF Len(args) = 0 THEN NoneAnn
    ELSE IF Head(args) # TypeAnn("NoneType") THEN Head(args)
    ELSE FirstNotNone(Tail(args))

\* BaseBot.__get_param_type
get_param_type(annotation) ==
    LET is_optional ==
            /\ annotation.kind = "union"
            /\ \E k \in 1..Len(annotation.args) :
                   annotation.args[k] = TypeAnn("NoneType")
        ann == IF is_optional THEN FirstNotNone(annotation.args) ELSE annotation
    IN  IF ann = StrAnn("int") THEN "INTEGER"
        ELSE IF ann = StrAnn("bool") THEN "BOOLEAN"
        ELSE IF ann = StrAnn("float") THEN "FLOAT"
        ELSE IF ann = StrAnn("str") THEN "STRING"
        ELSE "UNKNOWN"

\* the coercion of one non-None value: [exc, value]
Coerce(param, value) ==
    IF param.annotation = NoAnn
    THEN [exc |-> KeyError, value |-> value]
    ELSE LET param_type == get_param_type(param.annotation)
         IN  CASE param_type = "INTEGER" ->
                    IF value.t # "str"
                    THEN [exc |-> AttributeError, value |-> value]
                    ELSE IF ~IsDigit(value.v)
                    THEN [exc |-> IntConvertError(param.name, value.v),
                          value |-> value]
                    ELSE IF ~IsDecimal(value.v)
                    THEN [exc |-> ValueError, value |-> value]
                    ELSE [exc |-> NoExc, value |-> PyInt(ParseInt(value.v))]
               [] param_type = "FLOAT" ->
                    IF value.t = "str"
                    THEN IF IsFloat(value.v)
                         THEN [exc |-> NoExc, value |-> PyFloat(value.v)]
                         ELSE [exc |-> FloatConvertError(param.name, value.v),
                               value |-> value]
                    ELSE IF value.t \in {"int", "float", "bool"}
                    THEN [exc |-> NoExc, value |-> [value EXCEPT !.t = "float"]]
                    ELSE [exc |-> TypeError, value |-> value]
               [] param_type = "BOOLEAN" ->
                    IF value.t # "str"
                    THEN [exc |-> AttributeError, value |-> value]
                    ELSE IF Lower(value.v) = s_true
                    THEN [exc |-> NoExc, value |-> PyBool(TRUE)]
                    ELSE IF Lower(value.v) = s_false
                    THEN [exc |-> NoExc, value |-> PyBool(FALSE)]
                    ELSE [exc |-> NoExc, value |-> value]
               [] OTHER -> [exc |-> NoExc, value |-> value]

\* an iteration that hands every parameter over by name
ParseParamAllNamed(acc, param, data) ==
    LET default == IF param.has_default THEN param.default ELSE PyNone
        value == DictGet(data, param.name, default)
        c == IF value # PyNone THEN Coerce(param, value)
             ELSE [exc |-> NoExc, value |-> value]
    IN  IF c.exc # NoExc THEN [acc EXCEPT !.exc = c.exc]
        ELSE [acc EXCEPT !.kwargs = DictSet(acc.kwargs, param.name, c.value)]

\* one iteration of the loop of _parse_params over the declared parameters
ParseParam(acc, param, data) ==
    LET default == IF param.has_default THEN param.default ELSE PyNone
        value == DictGet(data, param.name, default)
        c == IF value # PyNone THEN Coerce(param, value)
             ELSE [exc |-> NoExc, value |-> value]
    IN  IF c.exc # NoExc THEN [acc EXCEPT !.exc = c.exc]
        ELSE IF param.kind \in {"POSITIONAL_OR_KEYWORD", "KEYWORD_ONLY"}
        THEN [acc EXCEPT !.kwargs = DictSet(acc.kwargs, param.name, c.value)]
        ELSE [acc EXCEPT !.args = Append(acc.args, c.value)]

RECURSIVE ParseParamsLoop(_, _, _)
ParseParamsLoop(acc, params, data) ==
    IF Len(params) = 0 \/ acc.exc # NoExc THEN acc
    ELSE ParseParamsLoop(ParseParam(acc, Head(params), data), Tail(params), data)

\* BaseBot._parse_params: [exc, args, kwargs]
_parse_params(params, data) ==
    ParseParamsLoop([exc |-> NoExc, args |-> <<>>, kwargs |-> EmptyDict],
                    SubSeq(params, 3, Len(params)), data)


(***************************************************************************)
(* Context.__init__(self, *, user_id, api, reply_token=None): called with  *)
(* keyword arguments kw (a record).  A keyword the signature does not      *)
(* declare, or a missing required one, is a TypeError.                     *)
(***************************************************************************)
NoneId == "None"

ContextParams == {"user_id", "api", "reply_token"}

ContextRequired == {"user_id", "api"}

NoCtx == [user_id |-> NoneId, reply_token |-> NoneId]

Context(kw) ==
    IF DOMAIN kw \subseteq ContextParams /\ ContextRequired \subseteq DOMAIN kw
    THEN [exc |-> NoExc,
          ctx |-> [user_id |-> kw.user_id,
                   reply_token |-> IF "reply_token" \in DOMAIN kw
                                   THEN kw.reply_token ELSE NoneId]]
    ELSE [exc |-> TypeError, ctx |-> NoCtx]

(***************************************************************************)
(* Cogs.  A cog class is its methods; Cog.__init__ keeps the methods that  *)
(* carry the command marker, keyed by their own name.                      *)
(***************************************************************************)
Method(name, marked, params, raises) ==
    [name |-> name, marked |-> marked, params |-> params, raises |-> raises]

SelfCtx ==
    << Param(s_self, NoAnn, FALSE, PyNone, "POSITIONAL_OR_KEYWORD"),
       Param(s_ctx, StrAnn("Context"), FALSE, PyNone, "POSITIONAL_OR_KEYWORD") >>

CogClassNames == {"CogA", "CogB", "CogBad"}

\* the methods of each cog class of the model
CogMethods(cls) ==
    CASE cls = "CogA" ->
           { Method(s_ping, TRUE, SelfCtx, FALSE),
             Method(s_boom, TRUE, SelfCtx, TRUE),
             Method(s_plus, TRUE,
                    SelfCtx \o << Param(s_n, StrAnn("int"), FALSE, PyNone,
                                        "POSITIONAL_OR_KEYWORD") >>, FALSE),
             Method(s_nope, FALSE, SelfCtx, FALSE) }
      [] cls = "CogB" ->
           { Method(s_ping, TRUE, SelfCtx, FALSE) }
      [] OTHER -> {}

\* the constructor of the class raises
InitRaises(cls) == cls = "CogBad"

\* every method of the instance taken as a command, marked or not
initialize_commands_unfiltered(cls) ==
    [name \in {m.name : m \in CogMethods(cls)} |->
         CHOOSE m \in CogMethods(cls) : m.name = name]

\* Cog.__initialize_commands
initialize_commands(cls) ==
    LET funcs == {m \in CogMethods(cls) : m.marked}
    IN  [name \in {m.name : m \in funcs} |->
             CHOOSE m \in funcs : m.name = name]

\* Cog.__init__: [exc, cog]
NewCog(cls) ==
    IF InitRaises(cls)
    THEN [exc |-> HandlerError, cog |-> [cls |-> cls, commands |-> EmptyDict]]
    ELSE [exc |-> NoExc,
          cog |-> [cls |-> cls, commands |-> initialize_commands(cls)]]

(***************************************************************************)
(* add_cog.  A reference is a class or the path of a module; a module is   *)
(* importable or not, and exports classes, some of them subclasses of Cog. *)
(***************************************************************************)
ModulePaths == {"cogs.a", "cogs.none", "cogs.two", "cogs.missing"}

Importable(path) == path # "cogs.missing"

\* inspect.getmembers(module, inspect.isclass): name-sorted (name, class)
ModuleClasses(path) ==
    CASE path = "cogs.a" -> << "Cog", "CogA", "Helper" >>
      [] path = "cogs.none" -> << "Cog", "Helper" >>
      [] path = "cogs.two" -> << "Cog", "CogA", "CogB" >>
      [] OTHER -> << >>

IsCogSubclass(cls) == cls \in CogClassNames \cup {"Cog"}

RECURSIVE SelectWithCog(_)
\* a filter that keeps Cog itself
SelectWithCog(classes) ==
    IF Len(classes) = 0 THEN << >>
    ELSE IF IsCogSubclass(Head(classes))
    THEN << Head(classes) >> \o SelectWithCog(Tail(classes))
    ELSE SelectWithCog(Tail(classes))

RECURSIVE SelectCogClasses(_)
\* [class_ for class_ in classes if issubclass(class_[1], Cog) and class_[1] != Cog]
SelectCogClasses(classes) ==
    IF Len(classes) = 0 THEN << >>
    ELSE IF IsCogSubclass(Head(classes)) /\ Head(classes) # "Cog"
    THEN << Head(classes) >> \o SelectCogClasses(Tail(classes))
    ELSE SelectCogClasses(Tail(classes))

ClassRef(cls) == [kind |-> "class", name |-> cls]
PathRef(path) == [kind |-> "path", name |-> path]

CogRefs == {ClassRef(c) : c \in CogClassNames} \cup {PathRef(p) : p \in ModulePaths}

\* a try block that appends the instance before its constructor has returned
AddCogBodyKeepsFailed(cogs_, ref) ==
    LET cls == IF ref.kind = "path"
               THEN IF Importable(ref.name) THEN "CogA" ELSE "CogBad"
               ELSE ref.name
        c == NewCog(cls)
    IN  [exc |-> c.exc, cogs |-> Append(cogs_, c.cog)]

\* the body of the try block of add_cog: [exc, cogs]
AddCogBody(cogs_, ref) ==
    IF ref.kind = "path"
    THEN IF ~Importable(ref.name)
         THEN [exc |-> Raise("ModuleNotFoundError"), cogs |-> cogs_]
         ELSE LET classes == SelectCogClasses(ModuleClasses(ref.name))
              IN  IF Len(classes) = 0
                  THEN [exc |-> CogLoadError(ref.name, "No Cog subclass found"),
                        cogs |-> cogs_]
                  ELSE IF Len(classes) > 1
                  THEN [exc |-> CogLoadError(ref.name,
                                             "Multiple Cog subclasses found"),
                        cogs |-> cogs_]
                  ELSE LET c == NewCog(classes[1])
                       IN  IF c.exc # NoExc THEN [exc |-> c.exc, cogs |-> cogs_]
                           ELSE [exc |-> NoExc, cogs |-> Append(cogs_, c.cog)]
    ELSE LET c == NewCog(ref.name)
         IN  IF c.exc # NoExc THEN [exc |-> c.exc, cogs |-> cogs_]
             ELSE [exc |-> NoExc, cogs |-> Append(cogs_, c.cog)]

\* BaseBot.add_cog: [exc, cogs]
add_cog(cogs_, ref) ==
    LET b == AddCogBody(cogs_, ref)
    IN  IF b.exc = NoExc \/ b.exc.type = "CogLoadError" THEN b
        ELSE [exc |-> CogLoadError(ref.name, b.exc.type), cogs |-> b.cogs]

\* Bot.add_cog of base.py: the same try block, and the one handler
\* `except Exception as e: raise CogLoadError(path_or_class, e)`
base_add_cog(cogs_, ref) ==
    LET b == AddCogBody(cogs_, ref)
    IN  IF b.exc = NoExc THEN b
        ELSE [exc |-> CogLoadError(ref.name, b.exc.type), cogs |-> b.cogs]


(***************************************************************************)
(* Events of a webhook request.                                            *)
(***************************************************************************)
NoSource == [kind |-> "none", user_id |-> NoneId, group_id |-> NoneId]
UserSource == [kind |-> "user", user_id |-> "U1", group_id |-> NoneId]
GroupSource == [kind |-> "group", user_id |-> "U2", group_id |-> "G1"]

\* getattr(source, name, None)
GetAttr(source, name) ==
    CASE name = "group_id" /\ source.kind = "group" -> source.group_id
      [] OTHER -> NoneId

\* has_text: the content of a message event (event.message) has the
\* attribute `text`; the postback data is always there
Event(variant, source, text, reply_token) ==
    [variant |-> variant, source |-> source, text |-> text,
     reply_token |-> reply_token, has_text |-> TRUE]

\* a message event whose content is an image: the content has no `text`
ImageMessage(source, reply_token) ==
    [Event("message", source, << >>, reply_token) EXCEPT !.has_text = FALSE]

t_ping == s_cmd \o <<"=">> \o s_ping
t_boom == s_cmd \o <<"=">> \o s_boom
t_plus_bad == s_cmd \o <<"=">> \o s_plus \o <<"&">> \o s_n \o <<"=", "x">>
t_plus_ctx ==
    s_cmd \o <<"=">> \o s_plus \o <<"&">> \o s_n \o <<"=", "7", "&">>
        \o s_ctx \o <<"=", "9", "&">> \o s_self \o <<"=", "1">>
t_nope == s_cmd \o <<"=">> \o s_nope
t_cmd_none == s_cmd \o <<"=">> \o s_None
t_no_cmd == <<"x", "=", "1">>

Events ==
    { Event("message", UserSource, t_ping, "R1"),
      Event("postback", UserSource, t_boom, "R2"),
      Event("message", GroupSource, t_plus_bad, "R1"),
      Event("postback", GroupSource, t_plus_ctx, "R2"),
      Event("message", NoSource, t_ping, "R1"),
      Event("postback", NoSource, t_boom, "R2"),
      Event("postback", GroupSource, t_nope, "R2"),
      Event("message", UserSource, t_no_cmd, "R1"),
      Event("postback", UserSource, <<>>, "R2"),
      Event("message", GroupSource, t_cmd_none, "R1"),
      ImageMessage(UserSource, "R1"),
      Event("follow", UserSource, <<>>, "R1"),
      Event("unfollow", UserSource, <<>>, NoneId),
      Event("other", GroupSource, <<>>, "R1") }

RECURSIVE SeqsUpTo(_, _)
\* the sequences over S of length at most n
SeqsUpTo(S, n) ==
    IF n = 0 THEN { << >> }
    ELSE LET shorter == SeqsUpTo(S, n - 1)
         IN  shorter \cup {Append(q, x) : q \in shorter, x \in S}

(***************************************************************************)
(* process_command.  Its result is the handler invocations it made, in     *)
(* order, and the exception it raised (NoExc when it returned).            *)
(***************************************************************************)
Call(k, cmd, ctx, pp) ==
    [cog |-> k, name |-> cmd, ctx |-> ctx, args |-> pp.args, kwargs |-> pp.kwargs]

\* the body of `if func:` for cog k: coercion, then the handler
Invoke(cogs_, k, cmd, data, ctx) ==
    LET func == cogs_[k].commands[cmd]
        pp == _parse_params(func.params, data)
    IN  IF pp.exc # NoExc
        THEN [calls |-> << >>, exc |-> ParamParseError(cmd, pp.exc)]
        ELSE IF func.raises
        THEN [calls |-> << Call(k, cmd, ctx, pp) >>,
              exc |-> CommandExecError(cmd, HandlerError)]
        ELSE [calls |-> << Call(k, cmd, ctx, pp) >>, exc |-> NoExc]

RECURSIVE Scan(_, _, _, _, _)
\* `for cog in self.cogs:` from cog k on; the loop breaks after the first match
Scan(cogs_, k, cmd, data, ctx) ==
    IF k > Len(cogs_) THEN [calls |-> << >>, exc |-> NoExc]
    ELSE IF cmd \in DOMAIN cogs_[k].commands
    THEN Invoke(cogs_, k, cmd, data, ctx)
    ELSE Scan(cogs_, k + 1, cmd, data, ctx)

\* the keyword arguments process_command passes to Context
ContextKwargs(source, reply_token) ==
    [user_id |-> source.user_id, api |-> "line_bot_api",
     reply_token |-> reply_token,
     group_id |-> GetAttr(source, "group_id"),
     room_id |-> GetAttr(source, "room_id")]

process_command(cogs_, text, source, reply_token) ==
    LET data == _parse_data(text)
        c == Context(ContextKwargs(source, reply_token))
        cmd == DictGet(data, s_cmd, PyNone)
    IN  IF c.exc # NoExc THEN [calls |-> << >>, exc |-> c.exc]
        ELSE IF cmd = PyNone \/ Len(cmd.v) = 0
        THEN [calls |-> << >>, exc |-> NoExc]
        ELSE Scan(cogs_, 1, cmd.v, data, c.ctx)

(***************************************************************************)
(* The event hooks.                                                        *)
(***************************************************************************)
\* BaseBot.on_postback
on_postback(cogs_, event) ==
    IF event.source = NoSource THEN [calls |-> << >>, exc |-> ValueError]
    ELSE process_command(cogs_, event.text, event.source, event.reply_token)

\* on_message without `if event.source is None`
on_message_unchecked(cogs_, event) ==
    process_command(cogs_, event.text, event.source, event.reply_token)

\* BaseBot.on_message; the arguments of the call of process_command are
\* evaluated first, and `event.message.text` on a content without that
\* attribute is an AttributeError
on_message(cogs_, event) ==
    IF event.source = NoSource THEN [calls |-> << >>, exc |-> ValueError]
    ELSE IF ~event.has_text THEN [calls |-> << >>, exc |-> AttributeError]
    ELSE process_command(cogs_, event.text, event.source, event.reply_token)

\* a follow hook that hands the event to the command pipeline
on_follow_dispatches(cogs_, event) ==
    process_command(cogs_, event.text, event.source, event.reply_token)

\* BaseBot.on_follow
on_follow(cogs_, event) == [calls |-> << >>, exc |-> NoExc]

\* BaseBot.on_unfollow
on_unfollow(cogs_, event) == [calls |-> << >>, exc |-> NoExc]

\* the isinstance chain of the loop of _handle_request: the hook of an event
HookOf(event) ==
    CASE event.variant = "postback" -> "on_postback"
      [] event.variant = "message" -> "on_message"
      [] event.variant = "follow" -> "on_follow"
      [] event.variant = "unfollow" -> "on_unfollow"
      [] OTHER -> "unsupported"

RunHook(cogs_, event) ==
    CASE HookOf(event) = "on_postback" -> on_postback(cogs_, event)
      [] HookOf(event) = "on_message" -> on_message(cogs_, event)
      [] HookOf(event) = "on_follow" -> on_follow(cogs_, event)
      [] OTHER -> on_unfollow(cogs_, event)


(***************************************************************************)
(* The state.                                                              *)
(*   cogs        bot.cogs, the registry                                    *)
(*   load_error  what add_cog raised into the application's main           *)
(*               coroutine (NoExc: every call returned)                    *)
(*   started     bot.run() has added the route and started the site        *)
(*   pc          where each request is: "idle" (not received), "parse",    *)
(*               "loop", "done" (the response is built)                    *)
(*   req         the request: its signature, its body and the events the   *)
(*               body holds                                                *)
(*   nxt         the index of the next event of the loop                   *)
(*   running     the hooks of the request that were entered and have not   *)
(*               returned, each with the result it will return             *)
(*   log         what was executed for the request, in order               *)
(*   status      the status of the response (0: none yet)                  *)
(* and, for the codec (_parse_data and _parse_params applied on their own, *)
(* as a unit test of the two static methods does):                         *)
(*   c_pc        "off", or how far the application went: "input",          *)
(*               "decoded", "coerced"                                      *)
(*   c_segs      the segments the parameter string was written from        *)
(*   c_text      param_string, the argument of _parse_data                 *)
(*   c_data      the dict _parse_data returned                             *)
(*   c_params    the declared parameters of the command, the first two     *)
(*               (self and ctx) included                                   *)
(*   c_parsed    what _parse_params returned or raised                     *)
(* and, for add_cog called on its own on a bot that holds a registry:      *)
(*   l_pc        "off", "call" (about to be called), "returned"            *)
(*   l_impl      the class whose add_cog is called: "bot" for BaseBot of   *)
(*               bot.py, "base" for Bot of base.py                         *)
(*   l_ref       path_or_class, the argument                               *)
(*   l_before    bot.cogs when add_cog is called                           *)
(*   l_cogs      bot.cogs                                                  *)
(*   l_exc       what add_cog raised (NoExc: it returned)                  *)
(* for one call of a function that talks to an API client (the reply       *)
(* operations of Context, push_message, raise_for_status, the methods of   *)
(* LineLoginAPI and LineNotifyAPI):                                        *)
(*   a_pc        "off", "call" (about to be called), "returned"            *)
(*   a_op        the function and its arguments                            *)
(*   a_out       the calls it made to the client, in order, and what it    *)
(*               raised (NoExc: it returned)                               *)
(* and for bot.run() and the run_tasks tasks it creates:                   *)
(*   t_pc        "off", "start", "sleep" (in asyncio.sleep), "closing"     *)
(*               (in the handler of CancelledError), "closed"              *)
(*   t_tasks     the tasks created, in order: "running", "done" or         *)
(*               "cancelled"                                               *)
(*   t_task      self.task: the index of a task, 0 for None                *)
(***************************************************************************)
VARIABLES cogs, load_error, started, pc, req, nxt, running, log, status,
          c_pc, c_segs, c_text, c_data, c_params, c_parsed,
          l_pc, l_impl, l_ref, l_before, l_cogs, l_exc,
          a_pc, a_op, a_out,
          t_pc, t_tasks, t_task

dispatch_vars ==
    << cogs, load_error, started, pc, req, nxt, running, log, status >>

codec_vars == << c_pc, c_segs, c_text, c_data, c_params, c_parsed >>

load_vars == << l_pc, l_impl, l_ref, l_before, l_cogs, l_exc >>

call_vars == << a_pc, a_op, a_out >>

task_vars == << t_pc, t_tasks, t_task >>

vars == << dispatch_vars, codec_vars, load_vars, call_vars, task_vars >>

NoRequest == [sig |-> "none", body_ok |-> FALSE, events |-> << >>]

EventLists == SeqsUpTo(Events, MaxEvents)

\* what a client can send: a request without the signature header, with a
\* signature that does not verify, with a body that does not deserialize,
\* or a well-formed one
RequestInputs ==
    {[sig |-> s, body_ok |-> TRUE, events |-> es] :
        s \in {"valid", "invalid", "missing"}, es \in EventLists}
    \cup {[sig |-> s, body_ok |-> FALSE, events |-> << >>] :
        s \in {"valid", "invalid", "missing"}}

NoCall == Call(0, << >>, NoCtx, [args |-> << >>, kwargs |-> EmptyDict])

\* call: for the entry of a handler, what it was called with
LogEntry(what, ev, cog, name, exc) ==
    [what |-> what, ev |-> ev, cog |-> cog, name |-> name, exc |-> exc,
     call |-> NoCall]

RECURSIVE CallEntries(_, _)
CallEntries(calls, ev) ==
    IF Len(calls) = 0 THEN << >>
    ELSE << [LogEntry("handler", ev, Head(calls).cog, Head(calls).name, NoExc)
                EXCEPT !.call = Head(calls)] >>
         \o CallEntries(Tail(calls), ev)

\* the bot after BaseBot.__init__, no request received
DispatchInit ==
    /\ cogs = << >>
    /\ load_error = NoExc
    /\ started = FALSE
    /\ pc = [r \in Requests |-> "idle"]
    /\ req = [r \in Requests |-> NoRequest]
    /\ nxt = [r \in Requests |-> 1]
    /\ running = [r \in Requests |-> {}]
    /\ log = [r \in Requests |-> << >>]
    /\ status = [r \in Requests |-> 0]

NotParsed == [exc |-> NoExc, args |-> << >>, kwargs |-> EmptyDict]

\* the static methods are not applied on their own
CodecOff ==
    /\ c_pc = "off"
    /\ c_segs = << >>
    /\ c_text = << >>
    /\ c_data = EmptyDict
    /\ c_params = << >>
    /\ c_parsed = NotParsed

\* add_cog is not called on its own
LoadOff ==
    /\ l_pc = "off"
    /\ l_impl = "bot"
    /\ l_ref = ClassRef("Cog")
    /\ l_before = << >>
    /\ l_cogs = << >>
    /\ l_exc = NoExc

\* a call: the function, and those of its arguments and of the fields of
\* the object it is called on that it reads
NoOp ==
    [fn |-> "none", reply_token |-> NoneId, to |-> NoneId, messages |-> << >>,
     notification_disabled |-> FALSE, status_code |-> 0, session |-> FALSE,
     fault |-> "none"]

NoOut == [exc |-> NoExc, calls |-> << >>]

\* no function of the API clients is called on its own
CallOff ==
    /\ a_pc = "off"
    /\ a_op = NoOp
    /\ a_out = NoOut

\* bot.run() is not followed through its loop
RunOff ==
    /\ t_pc = "off"
    /\ t_tasks = << >>
    /\ t_task = 0

Init == DispatchInit /\ CodecOff /\ LoadOff /\ CallOff /\ RunOff

\* the application's main coroutine calls bot.add_cog(ref) before bot.run();
\* a CogLoadError it does not catch ends it
AddCog(ref) ==
    /\ ~started
    /\ load_error = NoExc
    /\ Len(cogs) < MaxCogs
    /\ LET res == add_cog(cogs, ref)
       IN  /\ cogs' = res.cogs
           /\ load_error' = res.exc
    /\ UNCHANGED << started, pc, req, nxt, running, log, status, codec_vars, load_vars, call_vars, task_vars >>

\* bot.run(): the route of _handle_request is added and the site started
Run ==
    /\ ~started
    /\ load_error = NoExc
    /\ started' = TRUE
    /\ UNCHANGED << cogs, load_error, pc, req, nxt, running, log, status, codec_vars, load_vars, call_vars, task_vars >>

\* the server calls _handle_request with a request, one of inputs
ReceiveFrom(r, inputs) ==
    /\ started
    /\ pc[r] = "idle"
    /\ pc' = [pc EXCEPT ![r] = "parse"]
    /\ \E input \in inputs : req' = [req EXCEPT ![r] = input]
    /\ UNCHANGED << cogs, load_error, started, nxt, running, log, status, codec_vars, load_vars, call_vars, task_vars >>

\* a parser that hands on no events for a body it cannot deserialize
WebhookParseLenient(input) ==
    IF input.sig # "valid" THEN Raise("InvalidSignatureError")
    ELSE NoExc

\* self.webhook_parser.parse(body, signature): the events, or an exception
WebhookParse(input) ==
    IF input.sig # "valid" THEN Raise("InvalidSignatureError")
    ELSE IF ~input.body_ok THEN BodyError
    ELSE NoExc

\* a fault boundary that answers 500 without calling on_error
FaultLogSilent(log_r, entries, e) == log_r \o entries

\* a fault boundary that undoes what the request did before the failure
FaultLogRollback(log_r, entries, e) ==
    << LogEntry("on_error", 0, 0, << >>, e) >>

\* the fault boundary of _handle_request, `except Exception as e`: the log
\* and the status it leaves
FaultLog(log_r, entries, e) ==
    log_r \o entries \o << LogEntry("on_error", 0, 0, << >>, e) >>

FaultStatus == 500

\* a try statement inside the loop body: the loop goes on after an exception
FaultPcInsideLoop == "loop"

\* the try statement encloses the loop: an exception leaves the loop
FaultPc == "done"

\* a fault boundary shared by the requests: a failure ends every request
\* that is in its loop
FaultBoundaryShared(r, entries, e) ==
    /\ log' = [log EXCEPT ![r] = FaultLog(@, entries, e)]
    /\ status' = [q \in Requests |->
                      IF q = r \/ pc[q] = "loop" THEN FaultStatus ELSE status[q]]
    /\ pc' = [q \in Requests |->
                  IF q = r \/ pc[q] = "loop" THEN FaultPc ELSE pc[q]]

FaultBoundary(r, entries, e) ==
    /\ log' = [log EXCEPT ![r] = FaultLog(@, entries, e)]
    /\ status' = [status EXCEPT ![r] = FaultStatus]
    /\ pc' = [pc EXCEPT ![r] = FaultPc]

\* no `except InvalidSignatureError`: the error reaches the fault boundary
InvalidSignatureFallsThrough(r) ==
    FaultBoundary(r, << >>, Raise("InvalidSignatureError"))

\* `except InvalidSignatureError`: the status returned and what runs
InvalidSignatureStatus == 400

InvalidSignature(r) ==
    /\ status' = [status EXCEPT ![r] = InvalidSignatureStatus]
    /\ pc' = [pc EXCEPT ![r] = "done"]
    /\ log' = log

\* _handle_request up to the loop: the header, the body, the parser
VerifyParse(r) ==
    /\ pc[r] = "parse"
    /\ IF req[r].sig = "missing"
       THEN FaultBoundary(r, << >>, KeyError)
       ELSE LET e == WebhookParse(req[r])
            IN  IF e.type = "InvalidSignatureError"
                THEN InvalidSignature(r)
                ELSE IF e # NoExc
                THEN FaultBoundary(r, << >>, e)
                ELSE /\ pc' = [pc EXCEPT ![r] = "loop"]
                     /\ UNCHANGED << log, status >>
    /\ UNCHANGED << cogs, load_error, started, req, nxt, running, codec_vars, load_vars, call_vars, task_vars >>

\* a hook started as a task and not awaited
AwaitSkipped(r) == TRUE

\* `await`: the loop goes on only when the hook it awaits has returned
Awaited(r) == running[r] = {}

\* an `else` branch that raises for an event of no supported variant
UnsupportedRaises(r, i) ==
    FaultBoundary(r, << >>, Raise("NotImplementedError"))

\* the `else` branch of the isinstance chain: LOGGER.error(...); continue
Unsupported(r, i) ==
    /\ log' = [log EXCEPT ![r] =
                  Append(@, LogEntry("unsupported", i, 0, << >>, NoExc))]
    /\ UNCHANGED << pc, status >>

\* one iteration of `for event in events:` up to the await of the hook
LoopStep(r) ==
    /\ pc[r] = "loop"
    /\ Awaited(r)
    /\ nxt[r] <= Len(req[r].events)
    /\ LET i == nxt[r]
           event == req[r].events[i]
       IN  IF HookOf(event) = "unsupported"
           THEN /\ Unsupported(r, i)
                /\ UNCHANGED running
           ELSE /\ log' = [log EXCEPT ![r] =
                              Append(@, LogEntry(HookOf(event), i, 0, << >>, NoExc))]
                /\ running' = [running EXCEPT ![r] =
                                  @ \cup {[ev |-> i, out |-> RunHook(cogs, event)]}]
                /\ UNCHANGED << pc, status >>
    /\ nxt' = [nxt EXCEPT ![r] = @ + 1]
    /\ UNCHANGED << cogs, load_error, started, req, codec_vars, load_vars, call_vars, task_vars >>

\* a dispatcher that unregisters the first cog when a hook raises
RegistryAfterDrops(cogs_, out) ==
    IF out.exc # NoExc /\ cogs_ # << >> THEN Tail(cogs_) ELSE cogs_

\* process_command iterates self.cogs and reads cog.commands; neither it nor
\* _handle_request assigns to them
RegistryAfter(cogs_, out) == cogs_

\* the awaited hook returns, or raises into the fault boundary
HookReturn(r) ==
    /\ pc[r] = "loop"
    /\ \E h \in running[r] :
         /\ running' = [running EXCEPT ![r] = @ \ {h}]
         /\ IF h.out.exc # NoExc
            THEN FaultBoundary(r, CallEntries(h.out.calls, h.ev), h.out.exc)
            ELSE /\ log' = [log EXCEPT ![r] =
                               @ \o CallEntries(h.out.calls, h.ev)
                                 \o << LogEntry("return", h.ev, 0, << >>, NoExc) >>]
                 /\ UNCHANGED << pc, status >>
         /\ cogs' = RegistryAfter(cogs, h.out)
    /\ UNCHANGED << load_error, started, req, nxt, codec_vars, load_vars, call_vars, task_vars >>

\* the `else` of the try: every event was processed
ReturnOK(r) ==
    /\ pc[r] = "loop"
    /\ Awaited(r)
    /\ nxt[r] > Len(req[r].events)
    /\ status' = [status EXCEPT ![r] = 200]
    /\ pc' = [pc EXCEPT ![r] = "done"]
    /\ UNCHANGED << cogs, load_error, started, req, nxt, running, log, codec_vars, load_vars, call_vars, task_vars >>

\* the response is sent: _handle_request is over, its locals are gone
Respond(r) ==
    /\ pc[r] = "done"
    /\ pc' = [pc EXCEPT ![r] = "idle"]
    /\ req' = [req EXCEPT ![r] = NoRequest]
    /\ nxt' = [nxt EXCEPT ![r] = 1]
    /\ running' = [running EXCEPT ![r] = {}]
    /\ log' = [log EXCEPT ![r] = << >>]
    /\ status' = [status EXCEPT ![r] = 0]
    /\ UNCHANGED << cogs, load_error, started, codec_vars, load_vars, call_vars, task_vars >>

Receive(r) == ReceiveFrom(r, RequestInputs)

\* the requests arrive one after the other
Next ==
    \/ \E ref \in CogRefs : AddCog(ref)
    \/ Run
    \/ \E r \in Serial : Receive(r)
    \/ \E r \in Serial : VerifyParse(r)
    \/ \E r \in Serial : LoopStep(r)
    \/ \E r \in Serial : HookReturn(r)
    \/ \E r \in Serial : ReturnOK(r)
    \/ \E r \in Serial : Respond(r)

Spec == Init /\ [][Next]_vars


(***************************************************************************)
(* Vocabulary of the properties.                                           *)
(***************************************************************************)
Positions(r) == 1..Len(log[r])

IsHookEntry(e) ==
    e.what \in {"on_message", "on_postback", "on_follow", "on_unfollow"}

\* the hook of event i of request r was entered and has returned or raised
Finished(r, i) ==
    /\ i < nxt[r]
    /\ \A h \in running[r] : h.ev # i

\* the positions of the log where a command handler was invoked for event i
HandlerPositions(r, i) ==
    {p \in Positions(r) : log[r][p].what = "handler" /\ log[r][p].ev = i}

ErrorPositions(r) == {p \in Positions(r) : log[r][p].what = "on_error"}

\* the value of `cmd` in the decoded text of an event
CmdOf(event) == DictGet(_parse_data(event.text), s_cmd, PyNone)

\* the cogs of the registry that define command name
Defining(name) == {k \in 1..Len(cogs) : name \in DOMAIN cogs[k].commands}

Least(S) == CHOOSE k \in S : \A j \in S : k <= j

\* the event goes to process_command: a message or postback event with a
\* source and a text
IsCommandEvent(event) ==
    /\ event.variant \in {"message", "postback"}
    /\ event.source # NoSource
    /\ event.has_text

Done(r) == pc[r] = "done"

(***************************************************************************)
(* C1.  A request whose signature does not verify is answered with status  *)
(* 400 and nothing else happens for it: no hook is entered, no command     *)
(* handler is invoked, on_error is not called, no event is looked at.  The *)
(* outcome is the same for every such request.                             *)
(***************************************************************************)
C1_InvalidSignatureRejected ==
    \A r \in Requests :
        req[r].sig = "invalid" =>
            /\ log[r] = << >>
            /\ running[r] = {}
            /\ nxt[r] = 1
            /\ status[r] = IF Done(r) THEN 400 ELSE 0

C1_Witness ==
    \E r \in Requests :
        /\ Done(r)
        /\ req[r].sig = "invalid"
        /\ req[r].body_ok
        /\ Len(req[r].events) = MaxEvents
        /\ \A i \in 1..Len(req[r].events) : IsCommandEvent(req[r].events[i])
        /\ status[r] = 400

(***************************************************************************)
(* C4.  The events of a request are processed in the order of the event    *)
(* list and one at a time: at most one hook of the request is in flight,   *)
(* the events entered so far are 1, 2, ... in this order, each once, and   *)
(* when the hook of an event is entered the hook of every earlier event    *)
(* has returned.                                                           *)
(***************************************************************************)
C4_EventsInOrderOneAtATime ==
    \A r \in Requests :
        /\ Cardinality(running[r]) <= 1
        /\ \A p, q \in Positions(r) :
               (p < q /\ log[r][p].ev > 0 /\ log[r][q].ev > 0)
                   => log[r][p].ev <= log[r][q].ev
        /\ \A i \in 1..(nxt[r] - 1) :
               Cardinality({p \in Positions(r) :
                               /\ log[r][p].ev = i
                               /\ \/ IsHookEntry(log[r][p])
                                  \/ log[r][p].what = "unsupported"}) = 1
        /\ \A p, q \in Positions(r) :
               (p < q /\ IsHookEntry(log[r][p]) /\ IsHookEntry(log[r][q]))
                   => \E m \in (p + 1)..(q - 1) :
                          /\ log[r][m].what = "return"
                          /\ log[r][m].ev = log[r][p].ev

C4_Witness ==
    \E r \in Requests :
        \E p, q \in Positions(r) :
            /\ p < q
            /\ IsHookEntry(log[r][p]) /\ log[r][p].ev = 1
            /\ IsHookEntry(log[r][q]) /\ log[r][q].ev = 2
            /\ req[r].events[2].variant = "message"

(***************************************************************************)
(* C5.  The first event whose hook raises aborts the loop: on_error is the *)
(* last thing executed for the request, and nothing is executed for any    *)
(* event that follows an event whose hook raises.                          *)
(***************************************************************************)
C5_FirstFailureAbortsLoop ==
    \A r \in Requests :
        /\ ErrorPositions(r) # {} =>
               /\ Done(r)
               /\ running[r] = {}
               /\ ErrorPositions(r) = {Len(log[r])}
        /\ \A j \in 1..Len(req[r].events) :
               (\E i \in 1..(j - 1) :
                    /\ HookOf(req[r].events[i]) # "unsupported"
                    /\ RunHook(cogs, req[r].events[i]).exc # NoExc)
                   => \A p \in Positions(r) : log[r][p].ev # j

C5_Witness ==
    \E r \in Requests :
        /\ Done(r)
        /\ status[r] = 500
        /\ Len(req[r].events) = 2
        /\ IsCommandEvent(req[r].events[1])
        /\ req[r].events[2].variant = "follow"
        /\ \E p \in Positions(r) : log[r][p].ev = 1
        /\ \A p \in Positions(r) : log[r][p].ev # 2

(***************************************************************************)
(* C6.  A partial failure is not rolled back: when the hook of event k     *)
(* raises, the request is answered with status 500 and everything that was *)
(* executed for the events 1..k-1 is still there, the entry of each hook   *)
(* and its return.                                                         *)
(***************************************************************************)
C6_PartialFailureKept ==
    \A r \in Requests :
        (ErrorPositions(r) # {} /\ nxt[r] > 1) =>
            /\ status[r] = 500
            /\ \A i \in 1..(nxt[r] - 2) :
                   IF HookOf(req[r].events[i]) = "unsupported"
                   THEN \E p \in Positions(r) :
                            log[r][p].what = "unsupported" /\ log[r][p].ev = i
                   ELSE \E p, q \in Positions(r) :
                            /\ p < q
                            /\ log[r][p].what = HookOf(req[r].events[i])
                            /\ log[r][p].ev = i
                            /\ log[r][q].what = "return"
                            /\ log[r][q].ev = i

C6_Witness ==
    \E r \in Requests :
        /\ Done(r)
        /\ status[r] = 500
        /\ nxt[r] = 3
        /\ req[r].events[1].variant = "follow"
        /\ \E p \in Positions(r) : log[r][p].what = "return" /\ log[r][p].ev = 1
        /\ log[r][Len(log[r])].what = "on_error"

(***************************************************************************)
(* The command events of the properties below.  For a command event whose  *)
(* `cmd` names a command of the registry: the method the first defining    *)
(* cog holds for it, and the coercion of the event's parameters against    *)
(* its signature.                                                          *)
(***************************************************************************)
\* event i of request r is a command event whose hook is over
CommandEventOver(r, i) ==
    /\ i \in 1..Len(req[r].events)
    /\ Finished(r, i)
    /\ IsCommandEvent(req[r].events[i])

NameOf(event) == CmdOf(event).v

Matched(event) == CmdOf(event) # PyNone /\ Defining(NameOf(event)) # {}

FirstFunc(event) == cogs[Least(Defining(NameOf(event)))].commands[NameOf(event)]

Coerced(event) == _parse_params(FirstFunc(event).params, _parse_data(event.text))

LastEntry(r) == log[r][Len(log[r])]

(***************************************************************************)
(* C2.  When two or more cogs of the registry define the command an event  *)
(* names, the handler invoked for the event is the one of the cog          *)
(* registered first, and no handler of a later cog is invoked.             *)
(***************************************************************************)
C2_FirstRegisteredCogHandles ==
    \A r \in Requests : \A i \in 1..Len(req[r].events) :
        LET event == req[r].events[i]
        IN  ( /\ CommandEventOver(r, i)
              /\ Matched(event)
              /\ Cardinality(Defining(NameOf(event))) >= 2
              /\ Coerced(event).exc = NoExc )
                => {log[r][p].cog : p \in HandlerPositions(r, i)}
                       = {Least(Defining(NameOf(event)))}

C7_HandlerFailureWrapped ==
    \A r \in Requests : \A i \in 1..Len(req[r].events) :
        LET event == req[r].events[i]
        IN  ( /\ CommandEventOver(r, i)
              /\ Matched(event)
              /\ Coerced(event).exc = NoExc
              /\ FirstFunc(event).raises )
                => /\ Done(r)
                   /\ status[r] = 500
                   /\ LastEntry(r).what = "on_error"
                   /\ LastEntry(r).exc =
                          CommandExecError(NameOf(event), HandlerError)

(***************************************************************************)
(* C8.  When the coercion of the parameters of a matched command raises,   *)
(* on_error is called with a ParamParseError that carries the command name *)
(* and the cause (never with the bare conversion error), the handler is    *)
(* not invoked, and the request is answered with status 500.               *)
(***************************************************************************)
C8_CoercionFailureWrapped ==
    \A r \in Requests : \A i \in 1..Len(req[r].events) :
        LET event == req[r].events[i]
        IN  ( /\ CommandEventOver(r, i)
              /\ Matched(event)
              /\ Coerced(event).exc # NoExc )
                => /\ Done(r)
                   /\ status[r] = 500
                   /\ HandlerPositions(r, i) = {}
                   /\ LastEntry(r).what = "on_error"
                   /\ LastEntry(r).exc =
                          ParamParseError(NameOf(event), Coerced(event).exc)

(***************************************************************************)
(* C9.  A message or postback event with a source whose text decodes to a  *)
(* map without `cmd` is a no-op: its hook returns, no handler is invoked,  *)
(* on_error is not called, and a request made of such events is answered   *)
(* with status 200.                                                        *)
(***************************************************************************)
C9_NoCmdIsNoOp ==
    \A r \in Requests :
        /\ \A i \in 1..Len(req[r].events) :
               ( /\ CommandEventOver(r, i)
                 /\ CmdOf(req[r].events[i]) = PyNone )
                   => /\ HandlerPositions(r, i) = {}
                      /\ ErrorPositions(r) = {}
                      /\ \E p \in Positions(r) :
                             log[r][p].what = "return" /\ log[r][p].ev = i
        /\ ( /\ Done(r)
             /\ req[r].sig = "valid" /\ req[r].body_ok
             /\ \A i \in 1..Len(req[r].events) :
                    /\ IsCommandEvent(req[r].events[i])
                    /\ CmdOf(req[r].events[i]) = PyNone )
               => status[r] = 200

(***************************************************************************)
(* C10.  An event whose `cmd` names a command no cog of the registry       *)
(* defines is a silent no-op: its hook returns without an exception, no    *)
(* handler is invoked, on_error is not called for it, and the loop goes on *)
(* with the next event.                                                    *)
(***************************************************************************)
C10_UnknownCommandIsNoOp ==
    \A r \in Requests : \A i \in 1..Len(req[r].events) :
        LET event == req[r].events[i]
        IN  ( /\ CommandEventOver(r, i)
              /\ CmdOf(event) # PyNone
              /\ Defining(NameOf(event)) = {} )
                => /\ HandlerPositions(r, i) = {}
                   /\ \E p \in Positions(r) :
                          log[r][p].what = "return" /\ log[r][p].ev = i
                   /\ \A p \in ErrorPositions(r) :
                          \E q \in 1..(p - 1) :
                              IsHookEntry(log[r][q]) /\ log[r][q].ev > i
                   /\ pc[r] = "loop" \/ status[r] = 200 \/ nxt[r] > i + 1

(***************************************************************************)
(* More vocabulary.                                                        *)
(***************************************************************************)
\* event i of request r is a message with a source and without a text, and
\* its hook is over
TextlessOver(r, i) ==
    /\ i \in 1..Len(req[r].events)
    /\ Finished(r, i)
    /\ req[r].events[i].variant = "message"
    /\ req[r].events[i].source # NoSource
    /\ ~req[r].events[i].has_text

\* event i of request r is a message or postback without a source, and its
\* hook is over
NullSourceOver(r, i) ==
    /\ i \in 1..Len(req[r].events)
    /\ Finished(r, i)
    /\ req[r].events[i].variant \in {"message", "postback"}
    /\ req[r].events[i].source = NoSource

WellFormed(r) == req[r].sig = "valid" /\ req[r].body_ok

\* the events of request r whose hook raises
Raising(r) ==
    {i \in 1..Len(req[r].events) :
        /\ HookOf(req[r].events[i]) # "unsupported"
        /\ RunHook(cogs, req[r].events[i]).exc # NoExc}

\* the exception that escapes the try block of _handle_request for request
\* r, NoExc when none does
Escaping(r) ==
    IF req[r].sig = "missing" THEN KeyError
    ELSE IF req[r].sig = "invalid" THEN NoExc
    ELSE IF ~req[r].body_ok THEN BodyError
    ELSE IF Raising(r) = {} THEN NoExc
    ELSE RunHook(cogs, req[r].events[Least(Raising(r))]).exc

(***************************************************************************)
(* C11.  A message event with a source whose content has no text is        *)
(* skipped without error: its hook returns, no handler is invoked,         *)
(* on_error is not called for it, the loop goes on with the next event,    *)
(* and a request made of such events is answered with status 200.          *)
(***************************************************************************)
C11_TextlessMessageSkipped ==
    \A r \in Requests :
        /\ \A i \in 1..Len(req[r].events) :
               TextlessOver(r, i) =>
                   /\ HandlerPositions(r, i) = {}
                   /\ \E p \in Positions(r) :
                          log[r][p].what = "return" /\ log[r][p].ev = i
                   /\ \A p \in ErrorPositions(r) :
                          \E q \in 1..(p - 1) :
                              IsHookEntry(log[r][q]) /\ log[r][q].ev > i
        /\ ( /\ Done(r)
             /\ WellFormed(r)
             /\ \A i \in 1..Len(req[r].events) :
                    /\ req[r].events[i].variant = "message"
                    /\ req[r].events[i].source # NoSource
                    /\ ~req[r].events[i].has_text )
               => status[r] = 200

(***************************************************************************)
(* C12.  A message or postback event without a source makes its hook raise *)
(* ValueError before anything is parsed: no handler is invoked for the     *)
(* event, nothing is executed between the entry of the hook and on_error,  *)
(* on_error receives the ValueError, and the request is answered with      *)
(* status 500.                                                             *)
(***************************************************************************)
C12_NullSourceFails ==
    \A r \in Requests : \A i \in 1..Len(req[r].events) :
        NullSourceOver(r, i) =>
            /\ HandlerPositions(r, i) = {}
            /\ Done(r)
            /\ status[r] = 500
            /\ Len(log[r]) >= 2
            /\ LastEntry(r) = LogEntry("on_error", 0, 0, << >>, ValueError)
            /\ log[r][Len(log[r]) - 1] =
                   LogEntry(HookOf(req[r].events[i]), i, 0, << >>, NoExc)

C12_Witness ==
    \E r \in Requests :
        /\ NullSourceOver(r, 2)
        /\ req[r].events[1].variant = "follow"
        /\ req[r].events[2].variant = "postback"
        /\ cogs # << >>
        /\ status[r] = 500

(***************************************************************************)
(* C13.  A follow or unfollow event goes to on_follow / on_unfollow and    *)
(* nowhere else: the only things executed for it are the entry of that     *)
(* hook and its return; a request made only of follow and unfollow events  *)
(* invokes no handler, calls on_error never, and is answered with 200.     *)
(***************************************************************************)
C13_FollowsBypassCommands ==
    \A r \in Requests :
        /\ \A p \in Positions(r) :
               LET e == log[r][p]
               IN  (e.ev > 0 /\ req[r].events[e.ev].variant = "follow")
                       => e.what \in {"on_follow", "return"}
        /\ \A p \in Positions(r) :
               LET e == log[r][p]
               IN  (e.ev > 0 /\ req[r].events[e.ev].variant = "unfollow")
                       => e.what \in {"on_unfollow", "return"}
        /\ ( /\ WellFormed(r)
             /\ \A i \in 1..Len(req[r].events) :
                    req[r].events[i].variant \in {"follow", "unfollow"} )
               => /\ ErrorPositions(r) = {}
                  /\ \A p \in Positions(r) : log[r][p].what # "handler"
                  /\ Done(r) => status[r] = 200

C13_Witness ==
    \E r \in Requests :
        /\ Done(r)
        /\ status[r] = 200
        /\ Len(req[r].events) = 2
        /\ req[r].events[1].variant = "follow"
        /\ req[r].events[2].variant = "unfollow"
        /\ Len(log[r]) = 4
        /\ \E k \in 1..Len(cogs) : s_ping \in DOMAIN cogs[k].commands

(***************************************************************************)
(* C14.  An event of an unsupported variant is logged and skipped: it      *)
(* raises nothing, the loop goes on with the event after it, a response    *)
(* 500 is always due to another event or to the verify/parse step, and a   *)
(* request none of whose hooks raises has every one of its events          *)
(* processed and is answered with status 200.                              *)
(***************************************************************************)
C14_UnsupportedSkipped ==
    \A r \in Requests :
        /\ \A i \in 1..Len(req[r].events) :
               (i < nxt[r] /\ HookOf(req[r].events[i]) = "unsupported") =>
                   /\ \E p \in Positions(r) :
                          /\ log[r][p] =
                                 LogEntry("unsupported", i, 0, << >>, NoExc)
                          /\ p < Len(log[r]) =>
                                 /\ log[r][p + 1].what # "on_error"
                                 /\ log[r][p + 1].ev = i + 1
                   /\ LastEntry(r).ev = i =>
                          /\ status[r] \in {0, 200}
                          /\ nxt[r] = i + 1
                          /\ pc[r] = "loop" \/ i = Len(req[r].events)
                   /\ status[r] = 500 => Raising(r) # {}
        /\ (Done(r) /\ WellFormed(r) /\ Raising(r) = {}) =>
               /\ status[r] = 200
               /\ \A j \in 1..Len(req[r].events) :
                      \E p \in Positions(r) : log[r][p].ev = j

C14_Witness ==
    \E r \in Requests :
        /\ Done(r)
        /\ status[r] = 200
        /\ Len(req[r].events) = 2
        /\ HookOf(req[r].events[1]) = "unsupported"
        /\ req[r].events[2].variant = "follow"
        /\ \E p \in Positions(r) : log[r][p].what = "return" /\ log[r][p].ev = 2

(***************************************************************************)
(* C15.  The status of the response is a function of the outcome of the    *)
(* request: 400 exactly when the signature does not verify; 500 exactly    *)
(* when another exception escapes the header lookup, the parser or the     *)
(* loop, and then on_error was called exactly once, last, with that        *)
(* exception; 200 in every other case.                                     *)
(***************************************************************************)
C15_StatusDeterminedByOutcome ==
    \A r \in Requests :
        /\ status[r] \in {0, 200, 400, 500}
        /\ status[r] # 0 <=> Done(r)
        /\ status[r] # 500 => ErrorPositions(r) = {}
        /\ Done(r) =>
               /\ status[r] = 400 <=> req[r].sig = "invalid"
               /\ status[r] = 500 <=> Escaping(r) # NoExc
               /\ status[r] = 500 =>
                      /\ ErrorPositions(r) = {Len(log[r])}
                      /\ LastEntry(r) =
                             LogEntry("on_error", 0, 0, << >>, Escaping(r))
               /\ status[r] = 200 <=>
                      (req[r].sig # "invalid" /\ Escaping(r) = NoExc)

C15_Witness ==
    \E r \in Requests :
        /\ Done(r)
        /\ status[r] = 500
        /\ WellFormed(r)
        /\ Len(req[r].events) = 2
        /\ req[r].events[1].variant = "unfollow"
        /\ Raising(r) = {2}
        /\ ErrorPositions(r) = {Len(log[r])}

(***************************************************************************)
(* C16.  A request without the signature header, or with a body the        *)
(* parser cannot deserialize, ends in the fault boundary: on_error is      *)
(* called with the exception, the status is 500, and no event of the       *)
(* request is processed.                                                   *)
(***************************************************************************)
C16_VerifyParseFaultCaught ==
    \A r \in Requests :
        ( /\ Done(r)
          /\ \/ req[r].sig = "missing"
             \/ req[r].sig = "valid" /\ ~req[r].body_ok )
            => /\ status[r] = 500
               /\ nxt[r] = 1
               /\ running[r] = {}
               /\ log[r] = << LogEntry("on_error", 0, 0, << >>,
                                       IF req[r].sig = "missing"
                                       THEN KeyError ELSE BodyError) >>

C16_Witness ==
    \E r \in Requests :
        /\ Done(r)
        /\ req[r].sig = "valid"
        /\ ~req[r].body_ok
        /\ status[r] = 500
        /\ Len(log[r]) = 1


(***************************************************************************)
(* The codec on its own: _parse_data applied to a parameter string, then   *)
(* _parse_params applied to the dict it returned and to the declared       *)
(* parameters of a command.                                                *)
(***************************************************************************)
MaxSegs == 3

\* a segment as it is written: a key, and after an `=` (when eq) a value;
\* no `=` or `&` in the key, no `&` in the value
Seg(key, eq, value) == [key |-> key, eq |-> eq, value |-> value]

SegText(seg) == IF seg.eq THEN seg.key \o << "=" >> \o seg.value ELSE seg.key

\* the parameter string written from the segments
Render(segs) == Join([k \in 1..Len(segs) |-> SegText(segs[k])], "&")

s_foo == << "f", "o", "o" >>
s_x == << "x" >>

Segments ==
    { Seg(s_cmd, TRUE, s_foo),
      Seg(s_n, TRUE, s_None),
      Seg(s_x, TRUE, << >>),
      Seg(s_x, FALSE, << >>),
      Seg(s_n, TRUE, << "7" >>),
      Seg(s_n, TRUE, << "a", "=", "b" >>),
      Seg(s_x, TRUE, << "=" >>),
      Seg(<< >>, FALSE, << >>),
      Seg(<< >>, TRUE, << "v" >>),
      Seg(s_n, TRUE, << >>),
      Seg(s_cmd, TRUE, s_None \o << "=" >>) }

\* values of a parameter declared "int"
IntValues ==
    { << "7" >>,
      << "4", "2" >>,
      << "0", "0", "7" >>,
      << "0" >>,
      << "-", "1" >>,
      << "+", "1" >>,
      << "1", ".", "5" >>,
      << "x" >>,
      << "1", "x" >>,
      << "sup2" >>,
      << "1", "sup2" >>,
      << " ", "7" >> }

\* values of a parameter declared "bool"
BoolValues ==
    { << "t", "r", "u", "e" >>,
      << "T", "R", "U", "E" >>,
      << "T", "r", "u", "e" >>,
      << "t", "R", "u", "E" >>,
      << "f", "a", "l", "s", "e" >>,
      << "F", "A", "L", "S", "E" >>,
      << "F", "a", "l", "s", "e" >>,
      << "y", "e", "s" >>,
      << "1" >>,
      << "t", "r", "u", "e", "e" >>,
      << "t", "r", "u" >> }

ValueInputs == {<< Seg(s_n, TRUE, v) >> : v \in IntValues \cup BoolValues}

Kinds == {"POSITIONAL_ONLY", "POSITIONAL_OR_KEYWORD", "KEYWORD_ONLY"}

\* async def f(self, ctx, n: <annotation>) in a module with postponed
\* evaluation of annotations
Declared(annotation, kind) ==
    SelfCtx \o << Param(s_n, StrAnn(annotation), FALSE, PyNone, kind) >>

Declarations ==
    {Declared(a, k) : a \in {"int", "bool", "float", "str"}, k \in Kinds}

\* strings with and without the parameter n
DefaultInputs ==
    { << >>,
      << Seg(s_cmd, TRUE, s_foo) >>,
      << Seg(s_n, TRUE, << "7" >>) >>,
      << Seg(s_n, TRUE, << "x" >>) >>,
      << Seg(s_n, TRUE, s_None) >>,
      << Seg(s_cmd, TRUE, s_foo), Seg(s_n, TRUE, << >>) >> }

s_d == << "d" >>

\* param.default: inspect.Parameter.empty (has_default FALSE) or a value
Defaults ==
    { [has |-> FALSE, value |-> PyNone],
      [has |-> TRUE, value |-> PyNone],
      [has |-> TRUE, value |-> PyInt(5)],
      [has |-> TRUE, value |-> PyBool(TRUE)],
      [has |-> TRUE, value |-> PyFloat(<< "1", ".", "5" >>)],
      [has |-> TRUE, value |-> PyStr(s_d)],
      [has |-> TRUE, value |-> PyStr(<< "9" >>)] }

\* the annotation of n: a string of a module with postponed evaluation, a
\* type object of a module without it, or none at all
Annotations ==
    { StrAnn("int"), StrAnn("bool"), StrAnn("float"), StrAnn("str"),
      StrAnn("list[str]"), TypeAnn("int"), NoAnn }

\* async def f(self, ctx, n: <annotation> = <default>)
DefaultDeclarations ==
    {SelfCtx \o << Param(s_n, a, d.has, d.value, k) >> :
        a \in Annotations, d \in Defaults, k \in Kinds}

s_k == << "k" >>
s_v == << "v" >>
s_rest == << "r", "e", "s", "t" >>

\* segments for the parameters of ManyDeclarations, self and ctx included
ArgSegments ==
    { Seg(s_self, TRUE, << "S" >>),
      Seg(s_ctx, TRUE, << "C" >>),
      Seg(s_x, TRUE, << "1" >>),
      Seg(s_n, TRUE, << "7" >>),
      Seg(s_k, TRUE, s_true),
      Seg(s_v, TRUE, s_foo) }

PosOnly(name, annotation) ==
    Param(name, annotation, FALSE, PyNone, "POSITIONAL_ONLY")

\* async def f(self, ctx, x, n: int, /, k: bool, *, v="d")
\* async def f(self, ctx, k: bool, *rest, v="d", n: int)
\* async def f(self, ctx, n: int, /)
ManyDeclarations ==
    { << PosOnly(s_self, NoAnn), PosOnly(s_ctx, StrAnn("Context")),
         PosOnly(s_x, StrAnn("str")), PosOnly(s_n, StrAnn("int")),
         Param(s_k, StrAnn("bool"), FALSE, PyNone, "POSITIONAL_OR_KEYWORD"),
         Param(s_v, StrAnn("str"), TRUE, PyStr(s_d), "KEYWORD_ONLY") >>,
      SelfCtx \o
      << Param(s_k, StrAnn("bool"), FALSE, PyNone, "POSITIONAL_OR_KEYWORD"),
         Param(s_rest, StrAnn("str"), FALSE, PyNone, "VAR_POSITIONAL"),
         Param(s_v, StrAnn("str"), TRUE, PyStr(s_d), "KEYWORD_ONLY"),
         Param(s_n, StrAnn("int"), FALSE, PyNone, "KEYWORD_ONLY") >>,
      << PosOnly(s_self, NoAnn), PosOnly(s_ctx, StrAnn("Context")),
         PosOnly(s_n, StrAnn("int")) >> }

\* the annotations of an optional T: Optional[T] and T | None evaluated,
\* None | T evaluated, Optional["T"], and the strings a module with
\* postponed evaluation holds for Optional[T] and T | None
OptionalOf(T) ==
    { UnionAnn(<< TypeAnn(T), TypeAnn("NoneType") >>),
      UnionAnn(<< TypeAnn("NoneType"), TypeAnn(T) >>),
      UnionAnn(<< ForwardRefAnn(T), TypeAnn("NoneType") >>),
      StrAnn("Optional[" \o T \o "]"),
      StrAnn(T \o " | None") }

CoercedTypes == {"int", "bool", "float"}

\* async def f(self, ctx, n: <optional T> = None)
OptionalDeclarations ==
    {SelfCtx \o << Param(s_n, a, TRUE, PyNone, "POSITIONAL_OR_KEYWORD") >> :
        a \in UNION {OptionalOf(T) : T \in CoercedTypes}}

CodecInit ==
    /\ DispatchInit
    /\ LoadOff
    /\ CallOff
    /\ RunOff
    /\ c_pc = "input"
    /\ \/ /\ c_segs \in SeqsUpTo(Segments, MaxSegs)
          /\ c_params = Declared("str", "POSITIONAL_OR_KEYWORD")
       \/ /\ c_segs \in ValueInputs
          /\ c_params \in Declarations
       \/ /\ c_segs \in DefaultInputs
          /\ c_params \in DefaultDeclarations
       \/ /\ c_segs \in SeqsUpTo(ArgSegments, MaxSegs)
          /\ c_params \in ManyDeclarations
       \/ /\ c_segs \in ValueInputs \cup DefaultInputs
          /\ c_params \in OptionalDeclarations
    /\ c_text = Render(c_segs)
    /\ c_data = EmptyDict
    /\ c_parsed = NotParsed

\* data = self._parse_data(text)
ParseData ==
    /\ c_pc = "input"
    /\ c_data' = _parse_data(c_text)
    /\ c_pc' = "decoded"
    /\ UNCHANGED << dispatch_vars, load_vars, call_vars, task_vars, c_segs, c_text, c_params, c_parsed >>

\* args, kwargs = self._parse_params(dict(params), data, annotations)
ParseParams ==
    /\ c_pc = "decoded"
    /\ c_parsed' = _parse_params(c_params, c_data)
    /\ c_pc' = "coerced"
    /\ UNCHANGED << dispatch_vars, load_vars, call_vars, task_vars, c_segs, c_text, c_data, c_params >>

CodecNext == ParseData \/ ParseParams

CodecSpec == CodecInit /\ [][CodecNext]_vars

(***************************************************************************)
(* Vocabulary of the codec's properties.                                   *)
(***************************************************************************)
Decoded == c_pc \in {"decoded", "coerced"}

\* segment i writes an entry: it has an `=` and a value after it
Writes(i) == c_segs[i].eq /\ c_segs[i].value # << >>

\* segment i writes an entry no later segment overwrites
WritesLast(i) ==
    /\ Writes(i)
    /\ \A j \in (i + 1)..Len(c_segs) :
           ~(Writes(j) /\ c_segs[j].key = c_segs[i].key)

\* no segment writes an entry under the key
NeverWritten(key) ==
    \A j \in 1..Len(c_segs) : ~(Writes(j) /\ c_segs[j].key = key)

HasEquals(value) == \E k \in 1..Len(value) : value[k] = "="

\* the one parameter after self and ctx, and the value the handler would
\* get for it
TheParam == c_params[3]

Passed ==
    IF TheParam.kind = "POSITIONAL_ONLY" THEN c_parsed.args[1]
    ELSE c_parsed.kwargs[TheParam.name]

\* _parse_params was applied to a parameter declared with the annotation
\* and to a dict that holds a string for it
CoercedAs(annotation) ==
    /\ c_pc = "coerced"
    /\ Len(c_params) = 3
    /\ TheParam.annotation = StrAnn(annotation)
    /\ TheParam.name \in DOMAIN c_data
    /\ c_data[TheParam.name] # PyNone

TheValue == c_data[TheParam.name].v

(***************************************************************************)
(* C17.  _parse_data on `&`-separated segments: the last segment `k=None`  *)
(* for a key yields k -> None (not the string), a segment `k=` yields no   *)
(* entry for k, the last segment `k=v` with another non-empty v yields     *)
(* k -> v, and `cmd=foo&n=None&x=` decodes to exactly {cmd: "foo",         *)
(* n: None}.                                                               *)
(***************************************************************************)
C17_ParseDataNoneAndEmpty ==
    Decoded =>
        /\ \A i \in 1..Len(c_segs) :
               LET seg == c_segs[i]
               IN  /\ (WritesLast(i) /\ seg.value = s_None) =>
                          /\ seg.key \in DOMAIN c_data
                          /\ c_data[seg.key] = PyNone
                   /\ (WritesLast(i) /\ seg.value # s_None) =>
                          /\ seg.key \in DOMAIN c_data
                          /\ c_data[seg.key] = PyStr(seg.value)
                   /\ (seg.eq /\ seg.value = << >> /\ NeverWritten(seg.key)) =>
                          seg.key \notin DOMAIN c_data
        /\ c_segs = << Seg(s_cmd, TRUE, s_foo), Seg(s_n, TRUE, s_None),
                       Seg(s_x, TRUE, << >>) >>
               => c_data = (s_cmd :> PyStr(s_foo)) @@ (s_n :> PyNone)

C17_Witness ==
    /\ Decoded
    /\ c_text = << "c", "m", "d", "=", "f", "o", "o", "&",
                   "n", "=", "N", "o", "n", "e", "&", "x", "=" >>
    /\ DOMAIN c_data = {s_cmd, s_n}
    /\ c_data[s_n] = PyNone

(***************************************************************************)
(* C18.  _parse_data splits a segment on its first `=` only: a segment     *)
(* without `=` produces no entry (every entry comes from a segment with    *)
(* an `=` and a value), and for a segment with several `=` the key is the  *)
(* text before the first one and the value all the text after it, the      *)
(* other `=` included.                                                     *)
(***************************************************************************)
C18_ParseDataFirstEquals ==
    Decoded =>
        /\ \A key \in DOMAIN c_data :
               \E i \in 1..Len(c_segs) : Writes(i) /\ c_segs[i].key = key
        /\ \A i \in 1..Len(c_segs) :
               LET seg == c_segs[i]
               IN  /\ (~seg.eq /\ NeverWritten(seg.key)) =>
                          seg.key \notin DOMAIN c_data
                   /\ (WritesLast(i) /\ HasEquals(seg.value)) =>
                          /\ seg.key \in DOMAIN c_data
                          /\ c_data[seg.key] = PyStr(seg.value)

C18_Witness ==
    /\ Decoded
    /\ c_text = << "x", "&", "n", "=", "a", "=", "b" >>
    /\ DOMAIN c_data = {s_n}
    /\ c_data[s_n] = PyStr(<< "a", "=", "b" >>)

(***************************************************************************)
(* C19.  For a parameter declared "int", a string value made only of the   *)
(* decimal digits 0-9 is passed as the equal integer, and every other      *)
(* string value makes _parse_params raise IntConvertError with the name    *)
(* of the parameter and the value.                                         *)
(***************************************************************************)
IntegerOf ==
    (<< "7" >> :> 7) @@ (<< "4", "2" >> :> 42) @@ (<< "0", "0", "7" >> :> 7)
        @@ (<< "0" >> :> 0) @@ (<< "1" >> :> 1)

AsciiDigits == {"0", "1", "2", "3", "4", "5", "6", "7", "8", "9"}

C19_IntegerCoercion ==
    CoercedAs("int") =>
        IF \A k \in 1..Len(TheValue) : TheValue[k] \in AsciiDigits
        THEN /\ c_parsed.exc = NoExc
             /\ TheValue \in DOMAIN IntegerOf
             /\ Passed = PyInt(IntegerOf[TheValue])
        ELSE c_parsed.exc = IntConvertError(TheParam.name, TheValue)

(***************************************************************************)
(* C20.  For a parameter declared "bool", a string value equal to "true"   *)
(* in any letter case is passed as True, one equal to "false" in any       *)
(* letter case as False, and any other string is passed unchanged, as a    *)
(* string, and nothing is raised.                                          *)
(***************************************************************************)
UpperOf ==
    ("t" :> "T") @@ ("r" :> "R") @@ ("u" :> "U") @@ ("e" :> "E")
        @@ ("f" :> "F") @@ ("a" :> "A") @@ ("l" :> "L") @@ ("s" :> "S")

\* v is the word in some letter case
InAnyCase(v, word) ==
    /\ Len(v) = Len(word)
    /\ \A k \in 1..Len(word) : v[k] \in {word[k], UpperOf[word[k]]}

LoadedCogs == {NewCog(c).cog : c \in {c \in CogClassNames : ~InitRaises(c)}}

LoadInit ==
    /\ DispatchInit
    /\ CodecOff
    /\ CallOff
    /\ RunOff
    /\ l_pc = "call"
    /\ l_impl \in {"bot", "base"}
    /\ l_ref \in CogRefs
    /\ l_before \in SeqsUpTo(LoadedCogs, MaxCogs)
    /\ l_cogs = l_before
    /\ l_exc = NoExc

\* bot.add_cog(path_or_class), bot a BaseBot of bot.py
BotAddCog ==
    /\ l_pc = "call"
    /\ l_impl = "bot"
    /\ LET res == add_cog(l_cogs, l_ref)
       IN  l_cogs' = res.cogs /\ l_exc' = res.exc
    /\ l_pc' = "returned"
    /\ UNCHANGED << dispatch_vars, codec_vars, call_vars, task_vars, l_impl, l_ref, l_before >>

\* bot.add_cog(path_or_class), bot a Bot of base.py
BaseAddCog ==
    /\ l_pc = "call"
    /\ l_impl = "base"
    /\ LET res == base_add_cog(l_cogs, l_ref)
       IN  l_cogs' = res.cogs /\ l_exc' = res.exc
    /\ l_pc' = "returned"
    /\ UNCHANGED << dispatch_vars, codec_vars, call_vars, task_vars, l_impl, l_ref, l_before >>

LoadNext == BotAddCog \/ BaseAddCog

LoadSpec == LoadInit /\ [][LoadNext]_vars


(***************************************************************************)
(* More vocabulary of the codec's properties.                              *)
(***************************************************************************)
\* _parse_params was applied to one declared parameter after self and ctx
OneParamCoerced == c_pc = "coerced" /\ Len(c_params) = 3

TheDefault == IF TheParam.has_default THEN TheParam.default ELSE PyNone

\* the value looked up for the parameter: data.get(param.name, default)
TheLookedUp ==
    IF TheParam.name \in DOMAIN c_data THEN c_data[TheParam.name]
    ELSE TheDefault

\* the declared parameters after the first two
Rest == SubSeq(c_params, 3, Len(c_params))

ByName(param) == param.kind \in {"POSITIONAL_OR_KEYWORD", "KEYWORD_ONLY"}

\* how many of the first k parameters of Rest are not handed over by name
Rank(k) == Cardinality({j \in 1..k : ~ByName(Rest[j])})

\* what the value of a parameter of ManyDeclarations is, written out
ExpectedOf(param) ==
    IF param.name \notin DOMAIN c_data
    THEN IF param.has_default THEN param.default ELSE PyNone
    ELSE CASE param.name = s_x -> PyStr(<< "1" >>)
           [] param.name = s_n -> PyInt(7)
           [] param.name = s_k -> PyBool(TRUE)
           [] param.name = s_v -> PyStr(s_foo)

(***************************************************************************)
(* C21.  For a parameter absent from the decoded dict, _parse_params       *)
(* passes the declared default, None when there is none; a default that    *)
(* is None or is not a string (an integer default of an "int" parameter,   *)
(* a boolean default of a "bool" parameter) is passed unchanged and        *)
(* nothing is raised.                                                      *)
(***************************************************************************)
C21_DefaultPassedUncoerced ==
    ( /\ OneParamCoerced
      /\ TheParam.name \notin DOMAIN c_data
      /\ TheDefault.t # "str" )
        => /\ c_parsed.exc = NoExc
           /\ Passed = TheDefault

(***************************************************************************)
(* C22.  For a parameter whose annotation is "str", is not recognized as   *)
(* integer, float or boolean, or is missing, _parse_params passes the      *)
(* value it looked up unchanged and raises nothing.                        *)
(***************************************************************************)
C22_UnrecognizedPassedThrough ==
    ( /\ OneParamCoerced
      /\ TheParam.annotation \in
             {StrAnn("str"), StrAnn("list[str]"), TypeAnn("int"), NoAnn} )
        => /\ c_parsed.exc = NoExc
           /\ Passed = TheLookedUp

(***************************************************************************)
(* C23.  When _parse_params returns, the positional list holds the values  *)
(* of the positional-only parameters (and of the others not handed over    *)
(* by name) in declaration order, the named map holds every                *)
(* positional-or-keyword and keyword-only parameter under its own name,    *)
(* and each declared parameter after the first two is in exactly one of    *)
(* the two, once.                                                          *)
(***************************************************************************)
C23_PositionalAndNamed ==
    (c_pc = "coerced" /\ c_parsed.exc = NoExc) =>
        /\ DOMAIN c_parsed.kwargs =
               {Rest[k].name : k \in {j \in 1..Len(Rest) : ByName(Rest[j])}}
        /\ Len(c_parsed.args) = Rank(Len(Rest))
        /\ Len(c_parsed.args) + Cardinality(DOMAIN c_parsed.kwargs) = Len(Rest)
        /\ c_params \in ManyDeclarations =>
               \A k \in 1..Len(Rest) :
                   IF ByName(Rest[k])
                   THEN c_parsed.kwargs[Rest[k].name] = ExpectedOf(Rest[k])
                   ELSE c_parsed.args[Rank(k)] = ExpectedOf(Rest[k])

C23_Witness ==
    /\ c_pc = "coerced"
    /\ c_params \in ManyDeclarations
    /\ Len(c_params) = 6
    /\ c_params[3].kind = "POSITIONAL_ONLY"
    /\ c_parsed.args = << PyStr(<< "1" >>), PyInt(7) >>
    /\ c_parsed.kwargs = (s_k :> PyBool(TRUE)) @@ (s_v :> PyStr(s_d))

(***************************************************************************)
(* Vocabulary of the load properties.                                      *)
(***************************************************************************)
Returned == l_pc = "returned"

\* the classes of each module that are subclasses of Cog, Cog left out,
\* written out
Qualifying(path) ==
    CASE path = "cogs.a" -> {"CogA"}
      [] path = "cogs.none" -> {}
      [] path = "cogs.two" -> {"CogA", "CogB"}
      [] OTHER -> {}

\* the cause add_cog is to report for a reference that cannot be loaded
CauseOf(ref) ==
    IF ref.kind = "class" THEN "RuntimeError"
    ELSE IF ref.name = "cogs.missing" THEN "ModuleNotFoundError"
    ELSE IF Qualifying(ref.name) = {} THEN "No Cog subclass found"
    ELSE "Multiple Cog subclasses found"

(***************************************************************************)
(* C26.  BaseBot.add_cog with the path of a module: no subclass of Cog in  *)
(* the module, and more than one, each end in CogLoadError, the first      *)
(* with the cause "No Cog subclass found", the second with "Multiple Cog   *)
(* subclasses found"; with exactly one the call returns and the registry   *)
(* ends with a cog of that class.                                          *)
(***************************************************************************)
C26_PathResolution ==
    ( /\ Returned
      /\ l_impl = "bot"
      /\ l_ref.kind = "path"
      /\ l_ref.name # "cogs.missing" )
        => LET found == Qualifying(l_ref.name)
           IN  /\ found = {} =>
                      l_exc = CogLoadError(l_ref.name, "No Cog subclass found")
               /\ Cardinality(found) > 1 =>
                      l_exc = CogLoadError(l_ref.name,
                                           "Multiple Cog subclasses found")
               /\ Cardinality(found) = 1 =>
                      /\ l_exc = NoExc
                      /\ Len(l_cogs) = Len(l_before) + 1
                      /\ l_cogs[Len(l_cogs)].cls \in found

C26_Witness ==
    /\ Returned
    /\ l_impl = "bot"
    /\ l_ref = PathRef("cogs.two")
    /\ l_exc.type = "CogLoadError"
    /\ l_exc.e = "Multiple Cog subclasses found"
    /\ l_before # << >>

(***************************************************************************)
(* C27.  Every failure of add_cog is one CogLoadError that carries the     *)
(* reference and the cause: an exception of another type is wrapped once,  *)
(* a CogLoadError raised in add_cog comes out as it is, never as the       *)
(* cause of a second CogLoadError.                                         *)
(***************************************************************************)
C27_OneCogLoadError ==
    (Returned /\ l_exc # NoExc) =>
        /\ l_exc.type = "CogLoadError"
        /\ l_exc.cog_path = l_ref.name
        /\ l_exc.e # "CogLoadError"
        /\ l_exc.e = CauseOf(l_ref)

(***************************************************************************)
(* Vocabulary of the dispatch properties, continued.                       *)
(***************************************************************************)
\* the names of the methods of each cog class that carry the command
\* marker, written out
MarkedNames(cls) ==
    CASE cls = "CogA" -> {s_ping, s_boom, s_plus}
      [] cls = "CogB" -> {s_ping}
      [] OTHER -> {}

\* the command of event i of request r is defined by a cog and its
\* parameters coerce: process_command is to invoke the handler
ToInvoke(r, i) ==
    /\ CommandEventOver(r, i)
    /\ Matched(req[r].events[i])
    /\ Coerced(req[r].events[i]).exc = NoExc

\* a step of the handling of a request
HandlingStep == \E r \in Requests : pc[r] # "idle" \/ pc'[r] # "idle"

(***************************************************************************)
(* C24.  The first two declared parameters of a command, self and ctx,     *)
(* are not coerced and not taken from the decoded dict, also when the      *)
(* dict holds their names: the handler of a matched command is invoked     *)
(* with the Context process_command built as its context argument, and     *)
(* with positional and named arguments for the parameters after those two  *)
(* only.                                                                   *)
(***************************************************************************)
C24_SelfAndCtxNotFromData ==
    \A r \in Requests : \A i \in 1..Len(req[r].events) :
        ToInvoke(r, i) =>
            \E p \in HandlerPositions(r, i) :
                LET event == req[r].events[i]
                    call == log[r][p].call
                IN  /\ DOMAIN call.kwargs \cap {s_self, s_ctx} = {}
                    /\ Len(call.args) + Cardinality(DOMAIN call.kwargs)
                           = Len(FirstFunc(event).params) - 2
                    /\ call.ctx = Context([user_id |-> event.source.user_id,
                                            api |-> "line_bot_api",
                                            reply_token |-> event.reply_token]).ctx

(***************************************************************************)
(* C25.  Building the Context never fails for a message or postback event  *)
(* with a source, and the handler of a matched command is invoked with a   *)
(* Context that holds the user id of the source and the reply token of     *)
(* the event (the group id and the room id of the source are the keyword   *)
(* arguments Context.__init__ does not declare).                           *)
(***************************************************************************)
C25_ContextBuiltFromEvent ==
    \A r \in Requests :
        /\ \A p \in ErrorPositions(r) : log[r][p].exc # TypeError
        /\ \A i \in 1..Len(req[r].events) :
               ToInvoke(r, i) =>
                   \E p \in HandlerPositions(r, i) :
                       LET event == req[r].events[i]
                       IN  /\ log[r][p].call.ctx.user_id # NoneId
                           /\ log[r][p].call.ctx.user_id = event.source.user_id
                           /\ event.reply_token # NoneId =>
                                  log[r][p].call.ctx.reply_token # NoneId

(***************************************************************************)
(* C28.  The command map of every cog of the registry holds exactly the    *)
(* methods of its class that carry the command marker, each under its own  *)
(* name; an unmarked method is not in it.                                  *)
(***************************************************************************)
C28_CommandsAreMarkedMethods ==
    \A k \in 1..Len(cogs) :
        /\ DOMAIN cogs[k].commands = MarkedNames(cogs[k].cls)
        /\ \A name \in DOMAIN cogs[k].commands :
               /\ cogs[k].commands[name].name = name
               /\ cogs[k].commands[name].marked
        /\ s_nope \notin DOMAIN cogs[k].commands

C28_Witness ==
    /\ started
    /\ Len(cogs) = 2
    /\ cogs[1].cls = "CogB"
    /\ cogs[2].cls = "CogA"
    /\ DOMAIN cogs[2].commands = {s_ping, s_boom, s_plus}
    /\ \E r \in Requests :
           /\ Done(r)
           /\ Len(req[r].events) = 1
           /\ CmdOf(req[r].events[1]) = PyStr(s_nope)

(***************************************************************************)
(* C29.  No step of the handling of a request changes the registry: the    *)
(* list of cogs and the command map of each cog are the same after it,     *)
(* whether the request succeeds, skips its events or fails.                *)
(***************************************************************************)
C29_RegistryNotMutated == [][HandlingStep => cogs' = cogs]_vars

C29_Witness ==
    \E r \in Requests :
        /\ Done(r)
        /\ status[r] = 500
        /\ Len(cogs) = 2
        /\ Len(req[r].events) = 2
        /\ Raising(r) = {2}

(***************************************************************************)
(* C30.  Every message or postback event gets a Context of its own: the    *)
(* handler invoked for an event is invoked with a Context that holds the   *)
(* user id of the source of that event and the reply token of that event,  *)
(* of no other event.                                                      *)
(***************************************************************************)
C30_FreshContextPerEvent ==
    \A r \in Requests : \A i \in 1..Len(req[r].events) :
        ToInvoke(r, i) =>
            /\ HandlerPositions(r, i) # {}
            /\ \A p \in HandlerPositions(r, i) :
                   /\ log[r][p].call.ctx.user_id =
                          req[r].events[i].source.user_id
                   /\ log[r][p].call.ctx.reply_token =
                          req[r].events[i].reply_token


(***************************************************************************)
(* C35.  A parameter declared as an optional int, bool or float is         *)
(* resolved by __get_param_type to the parameter type of the bare int,     *)
(* bool or float declared in the same way, so that _parse_params does      *)
(* with its string value what it does for the declaration that is not      *)
(* optional.                                                               *)
(***************************************************************************)
\* the declaration of T that is not optional, written as the optional one
\* is: the type object for the evaluated union, the string otherwise
BareOf(annotation, T) ==
    IF annotation.kind = "union"
           /\ \E k \in 1..Len(annotation.args) : annotation.args[k] = TypeAnn(T)
    THEN TypeAnn(T)
    ELSE StrAnn(T)

C35_OptionalCoercedAsBare ==
    \A T \in CoercedTypes :
        ( /\ OneParamCoerced
          /\ TheParam.annotation \in OptionalOf(T)
          /\ TheParam.name \in DOMAIN c_data
          /\ c_data[TheParam.name].t = "str" )
            => LET bare == BareOf(TheParam.annotation, T)
               IN  /\ get_param_type(TheParam.annotation) = get_param_type(bare)
                   /\ c_parsed =
                          _parse_params(
                              SelfCtx \o << [TheParam EXCEPT !.annotation = bare] >>,
                              c_data)

C37_RegistryChangedOnSuccessOnly ==
    Returned =>
        /\ l_exc = NoExc =>
               /\ Len(l_cogs) = Len(l_before) + 1
               /\ SubSeq(l_cogs, 1, Len(l_before)) = l_before
               /\ l_cogs[Len(l_cogs)].cls \in
                      IF l_ref.kind = "class" THEN {l_ref.name}
                      ELSE Qualifying(l_ref.name)
        /\ l_exc # NoExc =>
               /\ l_exc.type = "CogLoadError"
               /\ l_cogs = l_before

C37_Witness ==
    /\ Returned
    /\ l_impl = "bot"
    /\ l_ref = ClassRef("CogBad")
    /\ l_exc.type = "CogLoadError"
    /\ Len(l_before) = 2
    /\ l_before[1].cls # l_before[2].cls
    /\ l_cogs = l_before

(***************************************************************************)
(* Two requests in flight: the server calls _handle_request for a request  *)
(* while another is suspended at the await of a hook.  The bot has been    *)
(* started with one cog.                                                   *)
(***************************************************************************)
\* the events of the requests: a follow event, a command event, an event
\* of no supported variant
ConcEvents ==
    { Event("follow", UserSource, << >>, "R1"),
      Event("message", UserSource, t_ping, "R1"),
      Event("other", GroupSource, << >>, "R1") }

\* well-formed requests over these events, and a request whose signature
\* does not verify
ConcInputs ==
    {input \in RequestInputs :
        /\ input.body_ok
        /\ \A k \in 1..Len(input.events) : input.events[k] \in ConcEvents
        /\ \/ input.sig = "valid"
           \/ input.sig = "invalid" /\ input.events = << >>}

\* the bot after add_cog(CogA) and run()
ConcInit ==
    /\ cogs = << NewCog("CogA").cog >>
    /\ load_error = NoExc
    /\ started = TRUE
    /\ pc = [r \in Requests |-> "idle"]
    /\ req = [r \in Requests |-> NoRequest]
    /\ nxt = [r \in Requests |-> 1]
    /\ running = [r \in Requests |-> {}]
    /\ log = [r \in Requests |-> << >>]
    /\ status = [r \in Requests |-> 0]
    /\ CodecOff
    /\ LoadOff
    /\ CallOff
    /\ RunOff

ConcReceive(r) == ReceiveFrom(r, ConcInputs)

ConcNext ==
    \/ \E r \in Requests : ConcReceive(r)
    \/ \E r \in Requests : VerifyParse(r)
    \/ \E r \in Requests : LoopStep(r)
    \/ \E r \in Requests : HookReturn(r)
    \/ \E r \in Requests : ReturnOK(r)
    \/ \E r \in Requests : Respond(r)

ConcSpec == ConcInit /\ [][ConcNext]_vars

RECURSIVE AloneFrom(_, _, _, _)
\* `for event in events:` from event i on, run without interruption:
\* the log and the status it ends with
AloneFrom(cogs_, events, i, log_) ==
    IF i > Len(events) THEN [log |-> log_, status |-> 200]
    ELSE IF HookOf(events[i]) = "unsupported"
    THEN AloneFrom(cogs_, events, i + 1,
                   Append(log_, LogEntry("unsupported", i, 0, << >>, NoExc)))
    ELSE LET out == RunHook(cogs_, events[i])
             entered == Append(log_, LogEntry(HookOf(events[i]), i, 0, << >>, NoExc))
         IN  IF out.exc # NoExc
             THEN [log |-> entered \o CallEntries(out.calls, i)
                               \o << LogEntry("on_error", 0, 0, << >>, out.exc) >>,
                   status |-> 500]
             ELSE AloneFrom(cogs_, events, i + 1,
                            entered \o CallEntries(out.calls, i)
                                \o << LogEntry("return", i, 0, << >>, NoExc) >>)

\* _handle_request run on a request with no other request in flight
Alone(cogs_, input) ==
    IF input.sig = "missing"
    THEN [log |-> << LogEntry("on_error", 0, 0, << >>, KeyError) >>, status |-> 500]
    ELSE IF input.sig # "valid" THEN [log |-> << >>, status |-> 400]
    ELSE IF ~input.body_ok
    THEN [log |-> << LogEntry("on_error", 0, 0, << >>, BodyError) >>, status |-> 500]
    ELSE AloneFrom(cogs_, input.events, 1, << >>)

IsPrefix(s, t) == Len(s) <= Len(t) /\ SubSeq(t, 1, Len(s)) = s

(***************************************************************************)
(* C31.  With several requests in flight, interleaved at the awaits of     *)
(* the hooks, what a request does depends on its own events only: at every *)
(* moment the hooks and handlers entered for it are a prefix of those it   *)
(* runs when it is handled alone, in the same order, and it ends with the  *)
(* same calls and the same status, whether another request has failed      *)
(* (500), has been rejected (400), or has succeeded.                       *)
(***************************************************************************)
C31_RequestsIndependent ==
    \A r \in Requests :
        pc[r] # "idle" =>
            LET alone == Alone(cogs, req[r])
            IN  /\ IsPrefix(log[r], alone.log)
                /\ Done(r) => /\ log[r] = alone.log
                              /\ status[r] = alone.status
                /\ ~Done(r) => status[r] = 0

C31_Witness ==
    /\ Done("r1")
    /\ status["r1"] = 500
    /\ Len(req["r2"].events) = 2
    /\ pc["r2"] = "loop"
    /\ nxt["r2"] = 3
    /\ running["r2"] # {}
    /\ \E p \in Positions("r2") : log["r2"][p].what = "return"

(***************************************************************************)
(* The functions that talk to an API client, each called once: the reply   *)
(* operations of Context, BaseBot.push_message, raise_for_status, and the  *)
(* methods of LineLoginAPI and LineNotifyAPI.  The result of a call is the *)
(* calls it made to the client, in order, and the exception it raised.     *)
(***************************************************************************)
MaxMessages == 6

MessageKinds == {"TextMessage", "ImageMessage"}

MessageLists == SeqsUpTo(MessageKinds, MaxMessages)

\* self.api.reply_message(ReplyMessageRequest(...))
ReplyMessageRequest(reply_token, messages, notification_disabled) ==
    [api |-> "reply_message", to |-> reply_token, messages |-> messages,
     notification_disabled |-> notification_disabled]

\* Context.reply_text
reply_text(op) ==
    IF op.reply_token = NoneId THEN [exc |-> ValueError, calls |-> << >>]
    ELSE [exc |-> NoExc,
          calls |-> << ReplyMessageRequest(op.reply_token, << "TextMessage" >>,
                                           op.notification_disabled) >>]

\* Context.reply_template
reply_template(op) ==
    IF op.reply_token = NoneId THEN [exc |-> ValueError, calls |-> << >>]
    ELSE [exc |-> NoExc,
          calls |-> << ReplyMessageRequest(op.reply_token, << "TemplateMessage" >>,
                                           op.notification_disabled) >>]

\* a reply that sends whatever the reply token is
reply_multiple_unguarded(op) ==
    [exc |-> NoExc,
     calls |-> << ReplyMessageRequest(op.reply_token, op.messages,
                                      op.notification_disabled) >>]

\* Context.reply_multiple
reply_multiple(op) ==
    IF op.reply_token = NoneId THEN [exc |-> ValueError, calls |-> << >>]
    ELSE [exc |-> NoExc,
          calls |-> << ReplyMessageRequest(op.reply_token, op.messages,
                                           op.notification_disabled) >>]

\* Context.reply_image
reply_image(op) ==
    IF op.reply_token = NoneId THEN [exc |-> ValueError, calls |-> << >>]
    ELSE [exc |-> NoExc,
          calls |-> << ReplyMessageRequest(op.reply_token, << "ImageMessage" >>,
                                           op.notification_disabled) >>]

\* self.line_bot_api.push_message(PushMessageRequest(...))
PushMessageRequest(to, messages, notification_disabled) ==
    [api |-> "push_message", to |-> to, messages |-> messages,
     notification_disabled |-> notification_disabled]

\* a cap that refuses five messages too
push_message_from_five(op) ==
    IF Len(op.messages) >= 5 THEN [exc |-> ValueError, calls |-> << >>]
    ELSE [exc |-> NoExc,
          calls |-> << PushMessageRequest(op.to, op.messages,
                                          op.notification_disabled) >>]

\* BaseBot.push_message
push_message(op) ==
    IF Len(op.messages) > 5 THEN [exc |-> ValueError, calls |-> << >>]
    ELSE [exc |-> NoExc,
          calls |-> << PushMessageRequest(op.to, op.messages,
                                          op.notification_disabled) >>]

\* raise_for_status
raise_for_status(status_code) ==
    CASE status_code = 400 -> Raise("BadRequestError")
      [] status_code = 401 -> Raise("UnauthorizedError")
      [] status_code = 403 -> Raise("ForbiddenError")
      [] status_code = 413 -> Raise("PayloadTooLargeError")
      [] status_code = 429 -> Raise("TooManyRequestsError")
      [] status_code = 500 -> Raise("InternalServerError")
      [] OTHER -> NoExc

\* session = self._session or aiohttp.ClientSession()
Acquire(op) == IF op.session THEN << >> ELSE << "ClientSession" >>

\* if self._session is None: await session.close()
Release(op) == IF op.session THEN << >> ELSE << "close" >>

\* `async with session.<verb>(...) as resp:` with a body that awaits
\* resp.json() and reads the result: the request can fail, the body can
\* fail to decode, the decoded value can lack what is read from it
Exchange(op, verb, missing) ==
    CASE op.fault = "request" ->
           [exc |-> Raise("ClientError"), calls |-> << verb >>]
      [] op.fault = "json" ->
           [exc |-> Raise("ContentTypeError"), calls |-> << verb, "json", "release" >>]
      [] op.fault = "key" ->
           [exc |-> missing, calls |-> << verb, "json", "release" >>]
      [] OTHER -> [exc |-> NoExc, calls |-> << verb, "json", "release" >>]

\* the statements after the exchange run when it has not raised
ThenRelease(op, x) ==
    IF x.exc # NoExc THEN [exc |-> x.exc, calls |-> Acquire(op) \o x.calls]
    ELSE [exc |-> NoExc, calls |-> Acquire(op) \o x.calls \o Release(op)]

\* LineLoginAPI.issue_access_token
issue_access_token(op) == ThenRelease(op, Exchange(op, "post", KeyError))

\* LineLoginAPI.get_user_profile
get_user_profile(op) == ThenRelease(op, Exchange(op, "get", TypeError))

\* LineNotifyAPI.notify: `await session.post(...)`, the response is not read
notify(op) ==
    ThenRelease(op, IF op.fault = "request"
                    THEN [exc |-> Raise("ClientError"), calls |-> << "post" >>]
                    ELSE [exc |-> NoExc, calls |-> << "post" >>])

ReplyFns == {"reply_text", "reply_template", "reply_multiple", "reply_image"}

ClientFns == {"issue_access_token", "get_user_profile", "notify"}

\* a context with a reply token, with an empty one, and one built without
ReplyTokens == {"R1", "", NoneId}

ReplyOps ==
    {[NoOp EXCEPT !.fn = fn, !.reply_token = token,
                  !.notification_disabled = nd] :
        fn \in ReplyFns \ {"reply_multiple"}, token \in ReplyTokens, nd \in BOOLEAN}
    \cup {[NoOp EXCEPT !.fn = "reply_multiple", !.reply_token = token,
                       !.messages = ms, !.notification_disabled = nd] :
             token \in ReplyTokens, nd \in BOOLEAN,
             ms \in {m \in MessageLists : Len(m) <= 2}}

PushOps ==
    {[NoOp EXCEPT !.fn = "push_message", !.to = "U1", !.messages = ms,
                  !.notification_disabled = nd] :
        ms \in MessageLists, nd \in BOOLEAN}

StatusCodes ==
    {100, 200, 201, 204, 301, 400, 401, 403, 404, 413, 429, 500, 502, 503}

StatusOps ==
    {[NoOp EXCEPT !.fn = "raise_for_status", !.status_code = code] :
        code \in StatusCodes}

ClientOps ==
    {[NoOp EXCEPT !.fn = fn, !.session = supplied, !.fault = fault] :
        fn \in {"issue_access_token", "get_user_profile"},
        supplied \in BOOLEAN, fault \in {"none", "request", "json", "key"}}
    \cup {[NoOp EXCEPT !.fn = "notify", !.session = supplied, !.fault = fault] :
             supplied \in BOOLEAN, fault \in {"none", "request"}}

CallInit ==
    /\ DispatchInit
    /\ CodecOff
    /\ LoadOff
    /\ RunOff
    /\ a_pc = "call"
    /\ a_op \in ReplyOps \cup PushOps \cup StatusOps \cup ClientOps
    /\ a_out = NoOut

Returns(out) ==
    /\ a_out' = out
    /\ a_pc' = "returned"
    /\ UNCHANGED << dispatch_vars, codec_vars, load_vars, task_vars, a_op >>

\* a handler calls a reply operation of its context
ReplyCall ==
    /\ a_pc = "call"
    /\ a_op.fn \in ReplyFns
    /\ Returns(CASE a_op.fn = "reply_text" -> reply_text(a_op)
                 [] a_op.fn = "reply_template" -> reply_template(a_op)
                 [] a_op.fn = "reply_multiple" -> reply_multiple(a_op)
                 [] OTHER -> reply_image(a_op))

\* bot.push_message(to, messages)
PushCall ==
    /\ a_pc = "call"
    /\ a_op.fn = "push_message"
    /\ Returns(push_message(a_op))

\* raise_for_status(status_code)
StatusCall ==
    /\ a_pc = "call"
    /\ a_op.fn = "raise_for_status"
    /\ Returns([exc |-> raise_for_status(a_op.status_code), calls |-> << >>])

\* a method of LineLoginAPI or LineNotifyAPI
ClientCall ==
    /\ a_pc = "call"
    /\ a_op.fn \in ClientFns
    /\ Returns(CASE a_op.fn = "issue_access_token" -> issue_access_token(a_op)
                 [] a_op.fn = "get_user_profile" -> get_user_profile(a_op)
                 [] OTHER -> notify(a_op))

CallNext == ReplyCall \/ PushCall \/ StatusCall \/ ClientCall

CallSpec == CallInit /\ [][CallNext]_vars

\* the function was called and has returned or raised
Called(fns) == a_pc = "returned" /\ a_op.fn \in fns

(***************************************************************************)
(* C32.  Each of reply_text, reply_template, reply_multiple and            *)
(* reply_image, called on a context whose reply token is None, raises      *)
(* ValueError and makes no call to the messaging API.                      *)
(***************************************************************************)
C32_ReplyNeedsToken ==
    (Called(ReplyFns) /\ a_op.reply_token = NoneId) =>
        /\ a_out.exc = ValueError
        /\ a_out.calls = << >>

C32_Witness ==
    /\ Called({"reply_multiple"})
    /\ a_op.reply_token = NoneId
    /\ Len(a_op.messages) = 2
    /\ a_out.exc = ValueError
    /\ a_out.calls = << >>

(***************************************************************************)
(* C33.  push_message with more than 5 messages raises ValueError and      *)
(* calls the messaging API not at all; with at most 5 messages it makes    *)
(* one call, with the recipient and exactly the messages given.            *)
(***************************************************************************)
C33_PushCap ==
    Called({"push_message"}) =>
        IF Len(a_op.messages) > 5
        THEN /\ a_out.exc = ValueError
             /\ a_out.calls = << >>
        ELSE /\ a_out.exc = NoExc
             /\ Len(a_out.calls) = 1
             /\ a_out.calls[1].api = "push_message"
             /\ a_out.calls[1].to = a_op.to
             /\ a_out.calls[1].messages = a_op.messages

C33_Witness ==
    /\ Called({"push_message"})
    /\ Len(a_op.messages) = 6
    /\ a_out.exc = ValueError
    /\ a_out.calls = << >>

(***************************************************************************)
(* C34.  raise_for_status raises nothing for 200, raises an exception for  *)
(* every other status code, and for 400, 401, 403, 413, 429 and 500 the    *)
(* exception is the documented one.                                        *)
(***************************************************************************)
Documented ==
    (400 :> "BadRequestError") @@ (401 :> "UnauthorizedError")
        @@ (403 :> "ForbiddenError") @@ (413 :> "PayloadTooLargeError")
        @@ (429 :> "TooManyRequestsError") @@ (500 :> "InternalServerError")

C34_RaiseForStatus ==
    Called({"raise_for_status"}) =>
        /\ a_op.status_code = 200 => a_out.exc = NoExc
        /\ a_op.status_code # 200 => a_out.exc # NoExc
        /\ a_op.status_code \in DOMAIN Documented =>
               a_out.exc.type = Documented[a_op.status_code]

(***************************************************************************)
(* C39.  A method of LineLoginAPI or LineNotifyAPI closes the session it   *)
(* created itself on every exit, by return or by exception, and never      *)
(* closes a session that was supplied at construction.                     *)
(***************************************************************************)
C39_OwnSessionClosed ==
    Called(ClientFns) =>
        /\ a_op.session =>
               \A k \in 1..Len(a_out.calls) :
                   a_out.calls[k] \notin {"ClientSession", "close"}
        /\ ~a_op.session =>
               /\ a_out.calls[1] = "ClientSession"
               /\ a_out.calls[Len(a_out.calls)] = "close"

(***************************************************************************)
(* bot.run(): the loop that creates a run_tasks task every task_interval,  *)
(* and the handler of CancelledError.  A task is done when run_tasks has   *)
(* returned; that can take longer than task_interval.                      *)
(***************************************************************************)
MaxTasks == 5

\* run() is called: the server is set up and started
RunInit ==
    /\ DispatchInit
    /\ CodecOff
    /\ LoadOff
    /\ CallOff
    /\ t_pc = "start"
    /\ t_tasks = << >>
    /\ t_task = 0

\* self.task = asyncio.create_task(self.run_tasks()), then
\* await asyncio.sleep(self.task_interval): at the start of the loop and
\* each time the sleep is over
CreateTask ==
    /\ t_pc \in {"start", "sleep"}
    /\ Len(t_tasks) < MaxTasks
    /\ t_tasks' = Append(t_tasks, "running")
    /\ t_task' = Len(t_tasks) + 1
    /\ t_pc' = "sleep"
    /\ UNCHANGED << dispatch_vars, codec_vars, load_vars, call_vars >>

\* run_tasks of task i returns
TaskDone(i) ==
    /\ i \in 1..Len(t_tasks)
    /\ t_tasks[i] = "running"
    /\ t_tasks' = [t_tasks EXCEPT ![i] = "done"]
    /\ UNCHANGED << dispatch_vars, codec_vars, load_vars, call_vars, t_pc, t_task >>

\* `if self.task is not None: self.task.cancel()`: the tasks after it
CancelTask(tasks, task) ==
    IF task # 0 /\ tasks[task] = "running"
    THEN [tasks EXCEPT ![task] = "cancelled"]
    ELSE tasks

\* run() is cancelled while it sleeps: `except asyncio.CancelledError`
Cancelled ==
    /\ t_pc = "sleep"
    /\ t_tasks' = CancelTask(t_tasks, t_task)
    /\ t_pc' = "closing"
    /\ UNCHANGED << dispatch_vars, codec_vars, load_vars, call_vars, t_task >>

\* on_close, site.stop, app.shutdown, async_api_client.close and
\* runner.cleanup have returned
Shutdown ==
    /\ t_pc = "closing"
    /\ t_pc' = "closed"
    /\ UNCHANGED << dispatch_vars, codec_vars, load_vars, call_vars, t_tasks, t_task >>

RunNext ==
    \/ CreateTask
    \/ \E i \in 1..MaxTasks : TaskDone(i)
    \/ Cancelled
    \/ Shutdown

RunSpec == RunInit /\ [][RunNext]_vars

(***************************************************************************)
(* C38.  run() creates one run_tasks task per task_interval, and when run  *)
(* has been cancelled and its shutdown sequence is over, none of the       *)
(* tasks it created is still running without having been cancelled, also   *)
(* when tasks outlast task_interval and several are in flight.             *)
(***************************************************************************)
C38_NoTaskLeftRunning ==
    /\ t_pc \in {"sleep", "closing", "closed"} =>
           /\ t_task = Len(t_tasks)
           /\ t_task >= 1
    /\ t_pc = "closed" =>
           \A i \in 1..Len(t_tasks) : t_tasks[i] # "running"

=============================================================================
